---------------------------- MODULE Spec2Model ----------------------------
(***************************************************************************)
(* A model of the business_finder scrapers: the Flippa card filter, the    *)
(* card extractors and index loops of the Flippa, Microns and Acquire      *)
(* scrapers, the filtered scrape pipelines and the SQLite listing store.   *)
(*                                                                         *)
(* Python values are encoded as follows.  An optional value (T | None) is  *)
(* a tuple: None is <<>> and a present value v is <<v>>.  A str is the     *)
(* tuple of its characters, so that lower(), strip() and substring search  *)
(* are computed and not assumed.                                           *)
(***************************************************************************)
EXTENDS Integers, Sequences, FiniteSets, TLC

VARIABLES
  card,        \* filter: the FlippaListingCard under evaluation
  filter_args, \* filter: the keyword arguments of passes_filter
  verdict,     \* filter: <<>> before the call, <<result>> after it
  listings,    \* store: the rows of the listings table
  clock,       \* store: CURRENT_TIMESTAMP, in whole seconds
  uuid_count,  \* store: the number of uuid4() values drawn so far
  last_call,   \* store: <<>> or <<the last save call, its arguments and result>>
  upserted,    \* store: per key, how many upserts it has had (history)
  page,        \* extractor: the card elements of the page, in DOM order
  extracted,   \* extractor: <<>> or <<the result of _extract_cards_from_page>>
  token,       \* parsers: the argument of the money parser, <<>> for None
  parse_result, \* parsers: <<>> or <<the parser called and what it did>>
  source,      \* index: the scraper running get_listing_cards
  idx_args,    \* index: the arguments and object fields get_listing_cards reads
  loc,         \* index: the local variables of get_listing_cards
  idx_pc,      \* index: "waiting", "login", "loop", "returned" or "raised"
  news,        \* index: per processed page or view, its new unique ids (history)
  served,      \* index: the pages or views processed, in order (history)
  pipe_pc,     \* pipeline: "setup", "index", "login", "refresh", "scrape", "check",
               \* "done", "failed" or "crashed"
  pipe,        \* pipeline: the arguments and local variables of the filtered run
  fetched      \* pipeline: the listing ids whose detail page was requested (history)

filterVars == <<card, filter_args, verdict>>
storeVars == <<listings, clock, uuid_count, last_call, upserted>>
extractVars == <<page, extracted, token, parse_result>>
indexVars == <<source, idx_args, loc, idx_pc, news, served>>
pipeVars == <<pipe_pc, pipe, fetched>>
vars == <<filterVars, storeVars, extractVars, indexVars, pipeVars>>

\* the variables of the other components, for each component
notFilter == <<storeVars, extractVars, indexVars, pipeVars>>
notStore == <<filterVars, extractVars, indexVars, pipeVars>>
notExtract == <<filterVars, storeVars, indexVars, pipeVars>>
notIndex == <<filterVars, storeVars, extractVars, pipeVars>>
notPipe == <<filterVars, extractVars, indexVars>>

-----------------------------------------------------------------------------
(* Optional values and strings *)

None == <<>>
Some(v) == <<v>>
Val(o) == o[1]

UpperChars == <<"A","B","C","D","E","F","G","H","I","J","K","L","M","N","O","P","Q","R","S","T","U","V","W","X","Y","Z">>
LowerChars == <<"a","b","c","d","e","f","g","h","i","j","k","l","m","n","o","p","q","r","s","t","u","v","w","x","y","z">>

\* str.lower() on one character
UpperSet == { UpperChars[i] : i \in 1..Len(UpperChars) }
LowerOf == [c \in UpperSet |-> LowerChars[CHOOSE i \in 1..Len(UpperChars) : UpperChars[i] = c]]
LowerChar(c) == IF c \in UpperSet THEN LowerOf[c] ELSE c

\* str.lower()
Lower(s) == [i \in 1..Len(s) |-> LowerChar(s[i])]

\* str.strip(): drop leading and trailing blanks
Strip(s) ==
  IF \A i \in 1..Len(s) : s[i] = " " THEN <<>>
  ELSE LET first == CHOOSE i \in 1..Len(s) :
                      s[i] # " " /\ \A j \in 1..(i-1) : s[j] = " "
           last  == CHOOSE i \in 1..Len(s) :
                      s[i] # " " /\ \A j \in (i+1)..Len(s) : s[j] = " "
       IN  SubSeq(s, first, last)

\* needle occurs in s at position i (1-based)
OccursAt(needle, s, i) ==
  /\ i >= 1
  /\ i + Len(needle) - 1 <= Len(s)
  /\ \A k \in 1..Len(needle) : s[i + k - 1] = needle[k]

\* Python's `needle in s`
Contains(s, needle) == \E i \in 1..(Len(s) + 1) : OccursAt(needle, s, i)

-----------------------------------------------------------------------------
(* US country detection: flippa.py *)

US_COUNTRY_VARIATIONS ==
  { <<"u","s">>,
    <<"u","s","a">>,
    <<"u",".","s",".">>,
    <<"u",".","s",".","a",".">>,
    <<"u",".","s",".","a">>,
    <<"u","n","i","t","e","d"," ","s","t","a","t","e","s">>,
    <<"u","n","i","t","e","d"," ","s","t","a","t","e","s"," ","o","f"," ","a","m","e","r","i","c","a">>,
    <<"a","m","e","r","i","c","a">> }

US_TERRITORIES ==
  { <<"p","u","e","r","t","o"," ","r","i","c","o">>,
    <<"g","u","a","m">>,
    <<"u",".","s","."," ","v","i","r","g","i","n"," ","i","s","l","a","n","d","s">>,
    <<"u","n","i","t","e","d"," ","s","t","a","t","e","s"," ","v","i","r","g","i","n"," ","i","s","l","a","n","d","s">>,
    <<"a","m","e","r","i","c","a","n"," ","s","a","m","o","a">>,
    <<"n","o","r","t","h","e","r","n"," ","m","a","r","i","a","n","a"," ","i","s","l","a","n","d","s">> }

\* is_us_country with an unknown country taken for the United States
is_us_country_UnknownIsUS(country) ==
  IF country = None THEN TRUE
  ELSE IF Val(country) = <<>> THEN FALSE
  ELSE LET normalized == Strip(Lower(Val(country)))
       IN  \/ normalized \in US_COUNTRY_VARIATIONS
           \/ normalized \in US_TERRITORIES
           \/ Contains(normalized, <<","," ","u","n","i","t","e","d"," ","s","t","a","t","e","s">>)

\* is_us_country(country): country is an optional str
is_us_country(country) ==
  IF country = None \/ Val(country) = <<>> THEN FALSE
  ELSE LET normalized == Strip(Lower(Val(country)))
       IN  \/ normalized \in US_COUNTRY_VARIATIONS
           \/ normalized \in US_TERRITORIES
           \/ Contains(normalized, <<","," ","u","n","i","t","e","d"," ","s","t","a","t","e","s">>)

-----------------------------------------------------------------------------
(* Category blacklist: flippa.py *)

FLIPPA_CATEGORY_BLACKLIST ==
  { <<"e","c","o","m","m","e","r","c","e">>,
    <<"e","-","c","o","m","m","e","r","c","e">>,
    <<"a","m","a","z","o","n">>,
    <<"f","b","a">>,
    <<"d","r","o","p","s","h","i","p">>,
    <<"d","r","o","p","s","h","i","p","p","i","n","g">>,
    <<"y","o","u","t","u","b","e">>,
    <<"t","i","k","t","o","k">>,
    <<"i","n","s","t","a","g","r","a","m">>,
    <<"s","o","c","i","a","l"," ","m","e","d","i","a">>,
    <<"n","e","w","s","l","e","t","t","e","r">>,
    <<"b","l","o","g">>,
    <<"c","o","n","t","e","n","t">>,
    <<"a","f","f","i","l","i","a","t","e">>,
    <<"m","a","r","k","e","t","p","l","a","c","e">>,
    <<"d","i","r","e","c","t","o","r","y">>,
    <<"a","g","e","n","c","y">>,
    <<"c","o","m","m","u","n","i","t","y">> }

\* build_blacklist_pattern(extra_terms): the compiled pattern is the
\* alternation of the escaped terms, matched with re.IGNORECASE.  It is
\* modelled by its set of (lower-case) alternatives; extra_terms is a set.
build_blacklist_pattern(extra_terms) ==
  FLIPPA_CATEGORY_BLACKLIST \cup { Lower(term) : term \in extra_terms }

\* pattern.search(text) for such a pattern: None, or the matched substring.
\* The match is the leftmost one; two alternatives matching at the same
\* position are prefixes of one another and sorted() puts the shorter
\* first, so the shorter one is matched.  An empty alternation (the pattern
\* "") matches the empty string at position 0.
PatternSearch(pattern, text) ==
  IF pattern = {} THEN Some(<<>>)
  ELSE LET low == Lower(text)
           hit(i) == { t \in pattern : OccursAt(t, low, i) }
       IN  IF \A i \in 1..(Len(text) + 1) : hit(i) = {} THEN None
           ELSE LET i == CHOOSE p \in 1..(Len(text) + 1) :
                           hit(p) # {} /\ \A q \in 1..(p-1) : hit(q) = {}
                    t == CHOOSE u \in hit(i) : \A w \in hit(i) : Len(u) <= Len(w)
                IN  Some(SubSeq(text, i, i + Len(t) - 1))

-----------------------------------------------------------------------------
(* FlippaListingCard.passes_filter: flippa.py *)

\* FlippaListingCard.annual_profit_cents
annual_profit_cents(self) ==
  IF self.profit_monthly_cents = None THEN None
  ELSE Some(Val(self.profit_monthly_cents) * 12)

\* f"{cents / 100:,.0f}": the dollars, rounded half to even
FormatDollars(cents) ==
  LET q == cents \div 100
      r == cents % 100
  IN  IF r < 50 THEN q
      ELSE IF r > 50 THEN q + 1
      ELSE IF q % 2 = 0 THEN q ELSE q + 1

\* the first of category, industry, title that the pattern matches
BlacklistedTexts(self, pattern) ==
  LET texts == <<self.category, self.industry, self.title>>
  IN  { i \in 1..3 : /\ texts[i] # None
                     /\ Val(texts[i]) # <<>>
                     /\ PatternSearch(pattern, Val(texts[i])) # None }

\* passes_filter with the country check moved before the blacklist check
passes_filter_CountryFirst(self, min_annual_profit_cents, category_blacklist, us_only, verified_only) ==
  LET texts  == <<self.category, self.industry, self.title>>
      annual == annual_profit_cents(self)
      floor_set == /\ min_annual_profit_cents # None
                   /\ Val(min_annual_profit_cents) # 0
      hits == IF category_blacklist = None THEN {}
              ELSE BlacklistedTexts(self, Val(category_blacklist))
  IN  IF self.is_confidential
        THEN <<"fail", <<"confidential listing">> >>
      ELSE IF verified_only /\ ~self.has_verified
        THEN <<"fail", <<"not verified">> >>
      ELSE IF floor_set /\ annual = None
        THEN <<"fail", <<"profit unknown">> >>
      ELSE IF floor_set /\ Val(annual) < Val(min_annual_profit_cents)
        THEN <<"fail", <<"profit too low", FormatDollars(Val(annual))>> >>
      ELSE IF us_only /\ ~is_us_country(self.country) /\ self.country = None
        THEN <<"check_detail", <<"country unknown, need detail page">> >>
      ELSE IF us_only /\ ~is_us_country(self.country)
        THEN <<"fail", <<"non-US", Val(self.country)>> >>
      ELSE IF hits # {}
        THEN LET i == CHOOSE h \in hits : \A g \in hits : h <= g
                 text == Val(texts[i])
             IN  <<"fail", <<"blacklisted",
                             Val(PatternSearch(Val(category_blacklist), text)), text>> >>
      ELSE <<"pass", None>>

passes_filter(self, min_annual_profit_cents, category_blacklist, us_only, verified_only) ==
  LET texts  == <<self.category, self.industry, self.title>>
      annual == annual_profit_cents(self)
      floor_set == /\ min_annual_profit_cents # None
                   /\ Val(min_annual_profit_cents) # 0
      hits == IF category_blacklist = None THEN {}
              ELSE BlacklistedTexts(self, Val(category_blacklist))
  IN  IF self.is_confidential
        THEN <<"fail", <<"confidential listing">> >>
      ELSE IF verified_only /\ ~self.has_verified
        THEN <<"fail", <<"not verified">> >>
      ELSE IF floor_set /\ annual = None
        THEN <<"fail", <<"profit unknown">> >>
      ELSE IF floor_set /\ Val(annual) < Val(min_annual_profit_cents)
        THEN <<"fail", <<"profit too low", FormatDollars(Val(annual))>> >>
      ELSE IF hits # {}
        THEN LET i == CHOOSE h \in hits : \A g \in hits : h <= g
                 text == Val(texts[i])
             IN  <<"fail", <<"blacklisted",
                             Val(PatternSearch(Val(category_blacklist), text)), text>> >>
      ELSE IF us_only
        THEN IF is_us_country(self.country) THEN <<"pass", None>>
             ELSE IF self.country = None
               THEN <<"check_detail", <<"country unknown, need detail page">> >>
             ELSE <<"fail", <<"non-US", Val(self.country)>> >>
      ELSE <<"pass", None>>

-----------------------------------------------------------------------------
(* The filter evaluated on sample cards and settings *)

SampleCategories ==
  { None, Some(<<"S","a","a","S">>), Some(<<"N","e","w","s","l","e","t","t","e","r">>) }

SampleIndustries ==
  { None, Some(<<>>), Some(<<"C","o","n","t","e","n","t">>) }

SampleTitles ==
  { None, Some(<<"F","B","A"," ","S","t","o","r","e"," ","|"," ","H","o","m","e">>) }

SampleCountries ==
  { None, Some(<<>>), Some(<<" ","u","s"," ">>), Some(<<"G","e","r","m","a","n","y">>),
    Some(<<"D","e","l","a","w","a","r","e",","," ","U","n","i","t","e","d"," ","S","t","a","t","e","s">>) }

\* monthly profits in cents: $500 and $1,000 a month
SampleMonthlyProfits == { None, Some(50000), Some(100000) }

\* floors in cents a year: none, 0 and $12,000
SampleFloors == { None, Some(0), Some(1200000) }

SampleBlacklists ==
  { None, Some(build_blacklist_pattern({ <<"S","a","a","S">> })) }

FilterCards ==
  [ category : SampleCategories, industry : SampleIndustries, title : SampleTitles,
    profit_monthly_cents : SampleMonthlyProfits, country : SampleCountries,
    has_verified : BOOLEAN, is_confidential : BOOLEAN ]

FilterArgs ==
  [ min_annual_profit_cents : SampleFloors, category_blacklist : SampleBlacklists,
    us_only : BOOLEAN, verified_only : BOOLEAN ]

FilterInit ==
  /\ card \in FilterCards
  /\ filter_args \in FilterArgs
  /\ verdict = None

\* the filter is not in use
FilterIdle ==
  /\ card = None
  /\ filter_args = None
  /\ verdict = None

\* one call card.passes_filter(**filter_args)
Evaluate ==
  /\ verdict = None
  /\ verdict' = Some(passes_filter(card, filter_args.min_annual_profit_cents,
                                   filter_args.category_blacklist,
                                   filter_args.us_only, filter_args.verified_only))
  /\ UNCHANGED <<card, filter_args>>
  /\ UNCHANGED notFilter


-----------------------------------------------------------------------------
(* What the filter's checks are, stated on the card and the settings *)

\* term occurs in text when both are compared without regard to case
ContainsIgnoringCase(text, term) ==
  \E i \in 1..Len(text) :
    /\ i + Len(term) - 1 <= Len(text)
    /\ \A k \in 1..Len(term) : LowerChar(text[i + k - 1]) = LowerChar(term[k])

CardTexts == <<card.category, card.industry, card.title>>

\* the card's i-th text (1 category, 2 industry, 3 title) holds a blacklisted term
TextBlacklisted(i) ==
  /\ filter_args.category_blacklist # None
  /\ CardTexts[i] # None
  /\ \E term \in Val(filter_args.category_blacklist) :
       ContainsIgnoringCase(Val(CardTexts[i]), term)

\* a floor is configured: the code reads a floor of 0 as no floor
FloorConfigured ==
  /\ filter_args.min_annual_profit_cents # None
  /\ Val(filter_args.min_annual_profit_cents) # 0

ConfidentialFails == card.is_confidential
VerificationFails == filter_args.verified_only /\ ~card.has_verified
ProfitUnknownFails == FloorConfigured /\ card.profit_monthly_cents = None
ProfitLowFails ==
  /\ FloorConfigured
  /\ card.profit_monthly_cents # None
  /\ 12 * Val(card.profit_monthly_cents) < Val(filter_args.min_annual_profit_cents)
BlacklistFails == \E i \in 1..3 : TextBlacklisted(i)
CountryFails == filter_args.us_only /\ ~is_us_country(card.country)

\* the checks that fail, numbered in the order confidential (1), verification
\* (2), profit floor (3), category blacklist (4), country policy (5)
FailingChecks ==
  { k \in 1..5 : \/ k = 1 /\ ConfidentialFails
                 \/ k = 2 /\ VerificationFails
                 \/ k = 3 /\ (ProfitUnknownFails \/ ProfitLowFails)
                 \/ k = 4 /\ BlacklistFails
                 \/ k = 5 /\ CountryFails }

\* the verdict <<status, reason>> is the one check k reports
ReportedBy(k, v) ==
  LET status == v[1]
      reason == v[2]
  IN  CASE k = 1 -> status = "fail" /\ reason = <<"confidential listing">>
        [] k = 2 -> status = "fail" /\ reason = <<"not verified">>
        [] k = 3 -> /\ status = "fail"
                    /\ IF ProfitUnknownFails THEN reason = <<"profit unknown">>
                       ELSE reason[1] = "profit too low"
        [] k = 4 -> /\ status = "fail"
                    /\ reason[1] = "blacklisted"
                    /\ LET i == CHOOSE t \in 1..3 :
                                  TextBlacklisted(t) /\ \A u \in 1..(t-1) : ~TextBlacklisted(u)
                       IN  /\ reason[3] = Val(CardTexts[i])
                           /\ Lower(reason[2]) \in Val(filter_args.category_blacklist)
        [] k = 5 -> IF card.country = None
                    THEN status = "check_detail"
                         /\ reason = <<"country unknown, need detail page">>
                    ELSE status = "fail" /\ reason = <<"non-US", Val(card.country)>>

\* C1: passes_filter reports the first failing check in the order
\* confidential, verification, profit floor, category blacklist, country
\* policy, and passes when no check fails; a card with a blacklisted text and
\* an unknown country is never reported as "country unknown" / check_detail,
\* and is reported as blacklisted when no earlier check fails.
C1_FirstFailingCheckWins ==
  verdict # None =>
    LET v == Val(verdict)
    IN  /\ IF FailingChecks = {} THEN v = <<"pass", None>>
           ELSE ReportedBy(CHOOSE k \in FailingChecks : \A j \in FailingChecks : k <= j, v)
        /\ (BlacklistFails /\ card.country = None) =>
             /\ v[1] # "check_detail"
             /\ v[2] # <<"country unknown, need detail page">>
             /\ (FailingChecks \cap 1..3 = {}) => v[2][1] = "blacklisted"

\* a card with a blacklisted category and an unknown country, under the
\* country policy, reported as blacklisted
C1_Witness ==
  /\ verdict # None
  /\ filter_args.us_only
  /\ card.country = None
  /\ TextBlacklisted(1)
  /\ Val(verdict)[1] = "fail"
  /\ Val(verdict)[2][1] = "blacklisted"

\* the annual profit is at or above the floor (or no floor is configured)
ProfitAtOrAboveFloor ==
  \/ ~FloorConfigured
  \/ /\ card.profit_monthly_cents # None
     /\ 12 * Val(card.profit_monthly_cents) >= Val(filter_args.min_annual_profit_cents)

\* C2 as stated: under the country policy a card with an unknown country, no
\* blacklist hit and a profit at or above the floor is check_detail; without
\* the country policy and with no failing check the verdict is pass.
C2_DeferredVerdictAsStated ==
  verdict # None =>
    /\ (filter_args.us_only /\ card.country = None /\ ~BlacklistFails /\ ProfitAtOrAboveFloor)
         => Val(verdict)[1] = "check_detail"
    /\ (~filter_args.us_only /\ FailingChecks = {}) => Val(verdict) = <<"pass", None>>

\* C2 (amended): the same for a card that is not confidential and meets the
\* verification requirement.
C2_DeferredVerdict ==
  verdict # None =>
    /\ ( /\ filter_args.us_only
         /\ card.country = None
         /\ ~BlacklistFails
         /\ ProfitAtOrAboveFloor
         /\ ~card.is_confidential
         /\ (filter_args.verified_only => card.has_verified) )
         => Val(verdict) = <<"check_detail", <<"country unknown, need detail page">> >>
    /\ (~filter_args.us_only /\ FailingChecks = {}) => Val(verdict) = <<"pass", None>>

\* a card deferred to its detail page with a floor and a blacklist configured
C2_Witness ==
  /\ verdict # None
  /\ filter_args.us_only
  /\ card.country = None
  /\ FloorConfigured
  /\ filter_args.category_blacklist # None
  /\ Val(verdict)[1] = "check_detail"

-----------------------------------------------------------------------------
(* The listing store: db/schema.py, db/operations.py *)

\* the natural keys used: the same external id under two sources
StoreKeys == { <<"microns", "test123">>, <<"flippa", "test123">> }

\* str(datetime.isoformat()) and json.dumps(dict): the text stored
IsoFormat(dt) == <<"isoformat", dt>>
JsonDumps(d) == <<"json", d>>

\* the non-key fields of the ListingCreate values saved; raw_data is a set
\* of key/value pairs
SampleListingFields ==
  { [ url |-> "https://microns.io/startup/test123", title |-> None, category |-> None,
      asking_price |-> None, annual_revenue |-> None, customers |-> None,
      launched_year |-> None, posted_at |-> None, description |-> None,
      location |-> None, country |-> None, raw_data |-> None ],
    [ url |-> "https://microns.io/startup/test123", title |-> Some("Original Title"),
      category |-> Some("Micro-SaaS"), asking_price |-> Some(5000000),
      annual_revenue |-> Some(1200000), customers |-> Some(74),
      launched_year |-> Some(2024), posted_at |-> Some(20260111),
      description |-> Some("A tool"), location |-> Some("Austin, TX"),
      country |-> Some("US"), raw_data |-> Some({}) ],
    [ url |-> "https://microns.io/startup/test123?ref=2", title |-> Some("Updated Title"),
      category |-> Some("Web app"), asking_price |-> Some(4500000),
      annual_revenue |-> None, customers |-> Some(80),
      launched_year |-> Some(2024), posted_at |-> None,
      description |-> Some("A better tool"), location |-> None,
      country |-> Some("United States"), raw_data |-> Some({ <<"arr_cents", 1200000>> }) ] }

\* ListingCreate values
ListingCreate(key, f) ==
  [ source_id |-> key[1], external_id |-> key[2], url |-> f.url, title |-> f.title,
    category |-> f.category, asking_price |-> f.asking_price,
    annual_revenue |-> f.annual_revenue, customers |-> f.customers,
    launched_year |-> f.launched_year, posted_at |-> f.posted_at,
    description |-> f.description, location |-> f.location, country |-> f.country,
    raw_data |-> f.raw_data ]

SampleListings == { ListingCreate(k, f) : k \in StoreKeys, f \in SampleListingFields }

\* the keyword arguments save_listing takes: it has no location and no country
SaveListingArgs(l) ==
  [ source_id |-> l.source_id, external_id |-> l.external_id, url |-> l.url,
    title |-> l.title, category |-> l.category, asking_price |-> l.asking_price,
    annual_revenue |-> l.annual_revenue, customers |-> l.customers,
    launched_year |-> l.launched_year, posted_at |-> l.posted_at,
    description |-> l.description, raw_data |-> l.raw_data ]

\* the parameter tuple bound to the INSERT statement by save_listing
BoundPostedAt(a) == IF a.posted_at # None THEN Some(IsoFormat(Val(a.posted_at))) ELSE None
BoundRawData(a) ==
  IF a.raw_data # None /\ Val(a.raw_data) # {} THEN Some(JsonDumps(Val(a.raw_data))) ELSE None

\* the upsert with first_seen_at reset on conflict (INSERT OR REPLACE)
UpsertRows_ResetFirstSeen(rows, a, listing_id, now) ==
  { r \in rows : ~(r.source_id = a.source_id /\ r.external_id = a.external_id) } \cup
    { [ id |-> IF \E r \in rows : r.source_id = a.source_id /\ r.external_id = a.external_id
                THEN (CHOOSE r \in rows :
                        r.source_id = a.source_id /\ r.external_id = a.external_id).id
                ELSE listing_id,
        source_id |-> a.source_id, external_id |-> a.external_id,
        url |-> a.url, title |-> a.title, category |-> a.category,
        asking_price |-> a.asking_price, annual_revenue |-> a.annual_revenue,
        customers |-> a.customers, launched_year |-> a.launched_year,
        posted_at |-> BoundPostedAt(a), description |-> a.description,
        location |-> None, country |-> None, raw_data |-> BoundRawData(a),
        first_seen_at |-> now, updated_at |-> now, last_seen_at |-> now ] }

\* INSERT INTO listings (...) VALUES (...) ON CONFLICT(source_id, external_id)
\* DO UPDATE SET ...: the table after the statement
UpsertRows(rows, a, listing_id, now) ==
  IF \E r \in rows : r.source_id = a.source_id /\ r.external_id = a.external_id
  THEN { IF r.source_id = a.source_id /\ r.external_id = a.external_id
         THEN [ r EXCEPT !.url = a.url, !.title = a.title, !.category = a.category,
                         !.asking_price = a.asking_price,
                         !.annual_revenue = a.annual_revenue,
                         !.customers = a.customers, !.launched_year = a.launched_year,
                         !.posted_at = BoundPostedAt(a), !.description = a.description,
                         !.raw_data = BoundRawData(a),
                         !.updated_at = now, !.last_seen_at = now ]
         ELSE r : r \in rows }
  ELSE rows \cup
    { [ id |-> listing_id, source_id |-> a.source_id, external_id |-> a.external_id,
        url |-> a.url, title |-> a.title, category |-> a.category,
        asking_price |-> a.asking_price, annual_revenue |-> a.annual_revenue,
        customers |-> a.customers, launched_year |-> a.launched_year,
        posted_at |-> BoundPostedAt(a), description |-> a.description,
        location |-> None, country |-> None, raw_data |-> BoundRawData(a),
        first_seen_at |-> now, updated_at |-> now, last_seen_at |-> now ] }

\* get_listing_by_external_id(source_id, external_id): <<>> or <<row>>
get_listing_by_external_id(rows, source_id, external_id) ==
  IF \E r \in rows : r.source_id = source_id /\ r.external_id = external_id
  THEN Some(CHOOSE r \in rows : r.source_id = source_id /\ r.external_id = external_id)
  ELSE None

\* get_listing(listing_id): <<>> or <<row>>
get_listing(rows, listing_id) ==
  IF \E r \in rows : r.id = listing_id
  THEN Some(CHOOSE r \in rows : r.id = listing_id)
  ELSE None

\* the upserts one run of the model performs, and the seconds it spans
MaxSaves == 3
MaxClock == 2

StoreInit ==
  /\ listings = {}
  /\ clock = 0
  /\ uuid_count = 0
  /\ last_call = None
  /\ upserted = [k \in StoreKeys |-> 0]

\* the store is not in use
StoreIdle ==
  /\ listings = {}
  /\ clock = 0
  /\ uuid_count = 0
  /\ last_call = None
  /\ upserted = <<>>

\* save_listing(**a): draws a uuid4, runs the upsert, returns the uuid
save_listing(a) ==
  /\ uuid_count < MaxSaves
  /\ uuid_count' = uuid_count + 1
  /\ listings' = UpsertRows(listings, a, uuid_count + 1, clock)
  /\ last_call' = Some([ op |-> "save_listing", listing |-> a,
                         listing_id |-> uuid_count + 1, is_new |-> None ])
  /\ upserted' = [upserted EXCEPT ![<<a.source_id, a.external_id>>] = @ + 1]
  /\ UNCHANGED clock

\* save_listing_from_model(l): looks the key up, saves, and returns the
\* existing row's id when there was one
save_listing_from_model(l) ==
  LET existing == get_listing_by_external_id(listings, l.source_id, l.external_id)
      is_new == existing = None
  IN  /\ uuid_count < MaxSaves
      /\ uuid_count' = uuid_count + 1
      /\ listings' = UpsertRows(listings, SaveListingArgs(l), uuid_count + 1, clock)
      /\ last_call' = Some([ op |-> "save_listing_from_model", listing |-> l,
                             listing_id |-> IF ~is_new THEN Val(existing).id
                                            ELSE uuid_count + 1,
                             is_new |-> Some(is_new) ])
      /\ upserted' = [upserted EXCEPT ![<<l.source_id, l.external_id>>] = @ + 1]
      /\ UNCHANGED clock

SaveListing ==
  /\ \E l \in SampleListings : save_listing(SaveListingArgs(l))
  /\ UNCHANGED notStore

SaveListingFromModel ==
  /\ \E l \in SampleListings : save_listing_from_model(l)
  /\ UNCHANGED notStore

\* a second passes on the store's clock
Tick ==
  /\ clock < MaxClock
  /\ clock' = clock + 1
  /\ UNCHANGED <<listings, uuid_count, last_call, upserted>>
  /\ UNCHANGED notStore

StoreNext == SaveListing \/ SaveListingFromModel \/ Tick

-----------------------------------------------------------------------------
(* Text parsing helpers of the Flippa scraper: flippa.py *)

\* the characters of a string literal
Chars(s) == [i \in 1..Len(s) |-> SubSeq(s, i, i)]

\* the string constants of the parsers and of the extractor
Str_AUD == Chars("AUD")
Str_CAD == Chars("CAD")
Str_EUR == Chars("EUR")
Str_GBP == Chars("GBP")
Str_SGD == Chars("SGD")
Str_HKD == Chars("HKD")
Str_NZD == Chars("NZD")
Str_INR == Chars("INR")
Str_pound == Chars("£")
Str_euro == Chars("€")
Str_A_dollar == Chars("A$")
Str_C_dollar == Chars("C$")
Str_p_slash_mo == Chars("p/mo")
Str_slash_mo == Chars("/mo")
Str_per_month == Chars("per month")
Str_monthly == Chars("monthly")
Str_year == Chars("year")
Str_month == Chars("month")
Str_type == Chars("type")
Str_industry == Chars("industry")
Str_net_profit == Chars("net profit")
Str_monthly_profit == Chars("monthly profit")
Str_site_age == Chars("site age")
Str_location == Chars("location")
Str_based_in == Chars("based in")
Str_Confidential == Chars("Confidential")
Str_Sign_NDA == Chars("Sign NDA")
Str_Type == Chars("Type")
Str_Net_Profit == Chars("Net Profit")
Str_Verified_Listing == Chars("Verified Listing")
Str_Verified_Revenue == Chars("Verified Revenue")

\* str.upper() on one character, and str.upper()
LowerSet == { LowerChars[i] : i \in 1..Len(LowerChars) }
UpperOf == [c \in LowerSet |-> UpperChars[CHOOSE i \in 1..Len(LowerChars) : LowerChars[i] = c]]
UpperChar(c) == IF c \in LowerSet THEN UpperOf[c] ELSE c
Upper(s) == [i \in 1..Len(s) |-> UpperChar(s[i])]

DigitChars == <<"0","1","2","3","4","5","6","7","8","9">>
DigitSet == { DigitChars[i] : i \in 1..Len(DigitChars) }
IsDigit(c) == c \in DigitSet
DigitVal(c) == (CHOOSE i \in 1..Len(DigitChars) : DigitChars[i] = c) - 1

\* str.isdigit()
IsDigitStr(s) == Len(s) > 0 /\ \A i \in 1..Len(s) : IsDigit(s[i])

\* int() of a string of decimal digits
RECURSIVE DecimalValue(_)
DecimalValue(ds) ==
  IF Len(ds) = 0 THEN 0
  ELSE DecimalValue(SubSeq(ds, 1, Len(ds) - 1)) * 10 + DigitVal(ds[Len(ds)])

\* the end of the run of characters satisfying the test that starts at i
DigitRunEnd(s, i) ==
  LET stops == { j \in (i + 1)..Len(s) : ~IsDigit(s[j]) }
  IN  IF stops = {} THEN (IF Len(s) > i THEN Len(s) ELSE i)
      ELSE (CHOOSE j \in stops : \A k \in stops : j <= k) - 1

RECURSIVE SkipBlanks(_, _)
SkipBlanks(s, i) ==
  IF i <= Len(s) /\ s[i] = " " THEN SkipBlanks(s, i + 1) ELSE i

RECURSIVE Pow10(_)
Pow10(n) == IF n = 0 THEN 1 ELSE 10 * Pow10(n - 1)

\* Python floats are IEEE 754 doubles. A double is kept as [m, e]: m its
\* significand in binary digits, most significant first and at most
\* MantissaBits long, e the weight of the last digit as a power of two
\* (zero has m = <<>>).
MantissaBits == 53

\* 2^n
RECURSIVE Pow2(_)
Pow2(n) == IF n >= 8 THEN 256 * Pow2(n - 8) ELSE IF n = 0 THEN 1 ELSE 2 * Pow2(n - 1)

\* the binary digits of a natural number below 2^31, most significant first
Bits(n) ==
  IF n = 0 THEN <<>>
  ELSE LET len == CHOOSE k \in 1..31 : n \div Pow2(k - 1) = 1
       IN  [i \in 1..len |-> (n \div Pow2(len - i)) % 2]

\* the number whose binary digits are the first n of bits
RECURSIVE BitsValueTo(_, _)
BitsValueTo(bits, n) ==
  IF n = 0 THEN 0
  ELSE IF n >= 4
  THEN 16 * BitsValueTo(bits, n - 4)
         + 8 * bits[n - 3] + 4 * bits[n - 2] + 2 * bits[n - 1] + bits[n]
  ELSE 2 * BitsValueTo(bits, n - 1) + bits[n]

BitsValue(bits) == BitsValueTo(bits, Len(bits))

\* bits without the zeros it opens with
WithoutLeadingZeroBits(bits) ==
  LET ones == { i \in 1..Len(bits) : bits[i] = 1 }
  IN  IF ones = {} THEN <<>>
      ELSE SubSeq(bits, CHOOSE i \in ones : \A j \in ones : i <= j, Len(bits))

\* the next 8 * chunks binary digits of r/d, 0 <= r < d < 2^23, and the
\* remainder
RECURSIVE FracBits(_, _, _)
FracBits(r, d, chunks) ==
  IF chunks = 0 THEN << <<>>, r >>
  ELSE CHOOSE result \in
         { << [i \in 1..8 |-> (((256 * r) \div d) \div Pow2(8 - i)) % 2] \o rest[1], rest[2] >>
           : rest \in { FracBits((256 * r) % d, d, chunks - 1) } }
         : TRUE

\* the number of zeros that open the binary expansion of r/d, 0 < r < d
LeadZeros(r, d) ==
  CHOOSE z \in 0..30 : r * Pow2(z + 1) >= d /\ (z = 0 \/ r * Pow2(z) < d)

\* bits + 1
Increment(bits) ==
  LET zeros == { i \in 1..Len(bits) : bits[i] = 0 }
  IN  IF zeros = {} THEN <<1>> \o [i \in 1..Len(bits) |-> 0]
      ELSE LET z == CHOOSE i \in zeros : \A j \in zeros : j <= i
           IN  [i \in 1..Len(bits) |-> IF i < z THEN bits[i] ELSE IF i = z THEN 1 ELSE 0]

\* round to nearest, ties to even: the double nearest to the number whose
\* digits are all_bits (last digit of weight 2^e), sticky telling that
\* digits other than zero follow (each argument is bound to its value once)
RoundToDouble(all_bits, sticky, e) ==
  CHOOSE result \in
    { IF Len(bits) <= MantissaBits THEN [ m |-> bits, e |-> e ]
      ELSE LET keep == SubSeq(bits, 1, MantissaBits)
               more == sticky \/ \E i \in (MantissaBits + 2)..Len(bits) : bits[i] = 1
               up == bits[MantissaBits + 1] = 1 /\ (more \/ keep[MantissaBits] = 1)
               e_kept == e + Len(bits) - MantissaBits
           IN  IF ~up THEN [ m |-> keep, e |-> e_kept ]
               ELSE IF \A i \in 1..MantissaBits : keep[i] = 1
               THEN [ m |-> SubSeq(Increment(keep), 1, MantissaBits), e |-> e_kept + 1 ]
               ELSE [ m |-> Increment(keep), e |-> e_kept ]
      : bits \in { all_bits } }
    : TRUE

\* float() of the decimal whole + rest/scale, 0 <= rest < scale
FloatOf(whole, rest, scale) ==
  CHOOSE result \in
    { IF n = 0 /\ r = 0 THEN [ m |-> <<>>, e |-> 0 ]
      ELSE IF n > 0
      THEN RoundToDouble(Bits(n) \o FracBits(r, d, 7)[1], FracBits(r, d, 7)[2] # 0, -56)
      ELSE RoundToDouble(FracBits(r * Pow2(LeadZeros(r, d)), d, 7)[1],
                         FracBits(r * Pow2(LeadZeros(r, d)), d, 7)[2] # 0,
                         -(LeadZeros(r, d) + 56))
      : n \in { whole }, r \in { rest }, d \in { scale } }
    : TRUE

\* limb k (from 0, base 2^14) of the number whose binary digits are bits
Limb(bits, k) ==
  IF Len(bits) - 14 * k < 1 THEN 0
  ELSE BitsValue(SubSeq(bits, IF Len(bits) - 14 * k - 13 < 1 THEN 1 ELSE Len(bits) - 14 * k - 13,
                        Len(bits) - 14 * k))

\* the part of limb p of bits * c that limb i of bits gives
LimbTerm(bits, c, i, p) ==
  IF p - i \in 0..2 THEN Limb(bits, i) * ((c \div Pow2(14 * (p - i))) % 16384) ELSE 0

\* the limbs p..7 of bits * c, least significant first, bits having at most
\* 56 digits and c being below 2^31
RECURSIVE ProductLimbs(_, _, _, _)
ProductLimbs(bits, c, p, carry) ==
  IF p = 8 THEN <<>>
  ELSE CHOOSE result \in
         { <<t % 16384>> \o ProductLimbs(bits, c, p + 1, t \div 16384)
           : t \in { carry + LimbTerm(bits, c, 0, p) + LimbTerm(bits, c, 1, p)
                          + LimbTerm(bits, c, 2, p) + LimbTerm(bits, c, 3, p) } }
         : TRUE

\* the binary digits of bits * c
BitsTimes(bits, c) ==
  CHOOSE result \in
    { WithoutLeadingZeroBits(
        [i \in 1..112 |-> (limbs[((112 - i) \div 14) + 1] \div Pow2((112 - i) % 14)) % 2])
      : limbs \in { ProductLimbs(bits, c, 0, 0) } }
    : TRUE

\* x * c for a double x and a natural number c held exactly by a double
FloatTimes(x, c) ==
  CHOOSE result \in
    { IF k = 0 \/ Len(y.m) = 0 THEN [ m |-> <<>>, e |-> 0 ]
      ELSE RoundToDouble(BitsTimes(y.m, k), FALSE, y.e)
      : y \in { x }, k \in { c } }
    : TRUE

\* int(x) for a double x >= 0: the fraction is cut off
FloatToInt(x) ==
  CHOOSE result \in
    { IF Len(y.m) = 0 THEN 0
      ELSE IF y.e >= 0 THEN BitsValue(y.m) * Pow2(y.e)
      ELSE IF -y.e >= Len(y.m) THEN 0
      ELSE BitsValueTo(y.m, Len(y.m) + y.e)
      : y \in { x } }
    : TRUE

\* float(number) of a string of digits with at most one "."
FloatOfString(number) ==
  LET dots == { i \in 1..Len(number) : number[i] = "." }
      d == IF dots = {} THEN Len(number) + 1 ELSE CHOOSE i \in dots : TRUE
      whole == SubSeq(number, 1, d - 1)
      frac == SubSeq(number, d + 1, Len(number))
  IN  FloatOf(DecimalValue(whole), DecimalValue(frac), Pow10(Len(frac)))

\* 2^1024 - 2^970, half way between the largest double and 2^1024: a
\* decimal at or above it is inf as a float, and int(inf) raises
\* OverflowError
FLOAT_OVERFLOW ==
  Chars("1797693134862315807937289714053034150799341327100378269361737789804449682927647509466490179775872070963") \o
  Chars("3028641669288791094655554785194040263065748867150582068190890200070838367627385484581771153176447573027") \o
  Chars("0069855571366959622842914819860834936475292719074168444365510704342711559699508093042880177904174497792")

\* a >= b for strings of digits without leading zeros
DigitsAtLeast(a, b) ==
  \/ Len(a) > Len(b)
  \/ /\ Len(a) = Len(b)
     /\ LET differ == { i \in 1..Len(a) : a[i] # b[i] }
        IN  \/ differ = {}
            \/ LET i == CHOOSE j \in differ : \A k \in differ : j <= k
               IN  DigitVal(a[i]) > DigitVal(b[i])

RECURSIVE WithoutLeadingZeros(_)
WithoutLeadingZeros(ds) ==
  IF Len(ds) > 0 /\ ds[1] = "0" THEN WithoutLeadingZeros(Tail(ds)) ELSE ds

\* float(number) * 10^places is inf (to within the rounding of the last
\* place), number being a string of digits with at most one "."
IsInf(number, places) ==
  LET dots == { i \in 1..Len(number) : number[i] = "." }
      d == IF dots = {} THEN Len(number) + 1 ELSE CHOOSE i \in dots : TRUE
      whole == SubSeq(number, 1, d - 1)
      frac == SubSeq(number, d + 1, Len(number)) \o [i \in 1..places |-> "0"]
  IN  DigitsAtLeast(WithoutLeadingZeros(whole \o SubSeq(frac, 1, places)), FLOAT_OVERFLOW)

\* float(number) raises ValueError
IsNotFloat(number) ==
  LET dots == { i \in 1..Len(number) : number[i] = "." }
  IN  Cardinality(dots) > 1 \/ Cardinality(dots) = Len(number)

\* known non-USD currencies and their USD rates (numerator, denominator),
\* in the order of the dict
CURRENCY_TO_USD_RATE ==
  << <<Str_AUD, 65, 100>>, <<Str_CAD, 74, 100>>, <<Str_EUR, 108, 100>>,
     <<Str_GBP, 126, 100>>, <<Str_SGD, 74, 100>>, <<Str_HKD, 13, 100>>,
     <<Str_NZD, 60, 100>>, <<Str_INR, 12, 1000>> >>

\* the currency code detected in a price text: <<>> or <<index in the dict>>
DetectedCurrency(text) ==
  LET text_upper == Upper(text)
      hits == { i \in 1..Len(CURRENCY_TO_USD_RATE) :
                  Contains(text_upper, CURRENCY_TO_USD_RATE[i][1]) }
  IN  IF hits # {} THEN Some(CHOOSE i \in hits : \A j \in hits : i <= j)
      ELSE IF Contains(text, Str_pound) THEN Some(4)
      ELSE IF Contains(text, Str_euro) THEN Some(3)
      ELSE IF Contains(text, Str_A_dollar) THEN Some(1)
      ELSE IF Contains(text, Str_C_dollar) THEN Some(2)
      ELSE None

\* re.sub(r"[^\d.]", "", text)
IsNumberChar(c) == IsDigit(c) \/ c = "."
Cleaned(text) == SelectSeq(text, IsNumberChar)

\* int(float(cleaned) * 100): <<>> when float() raises ValueError
RawCents(cleaned) ==
  LET dots == { i \in 1..Len(cleaned) : cleaned[i] = "." }
  IN  IF Cardinality(dots) > 1 \/ Cardinality(dots) = Len(cleaned) THEN None
      ELSE IF dots = {} THEN Some(DecimalValue(cleaned) * 100)
      ELSE Some(FloatToInt(FloatTimes(FloatOfString(cleaned), 100)))

\* int(float(cleaned) * 100) raises OverflowError, which `except ValueError`
\* does not catch
RawCentsRaises(cleaned) == ~IsNotFloat(cleaned) /\ IsInf(cleaned, 2)

\* parse_price_with_currency(text) raises
parse_price_with_currency_raises(text) ==
  Len(Cleaned(text)) > 0 /\ RawCentsRaises(Cleaned(text))

\* parse_price_with_currency(text): <<cents_usd, currency_code, warning>>
parse_price_with_currency(text) ==
  IF Len(text) = 0 THEN <<None, None, None>>
  ELSE LET cur == DetectedCurrency(text)
           code == IF cur = None THEN None ELSE Some(CURRENCY_TO_USD_RATE[Val(cur)][1])
           raw == IF Len(Cleaned(text)) = 0 THEN None ELSE RawCents(Cleaned(text))
       IN  IF raw = None THEN <<None, code, None>>
           ELSE IF cur # None
           THEN << Some(FloatToInt(FloatTimes(
                          FloatOf(CURRENCY_TO_USD_RATE[Val(cur)][2] \div CURRENCY_TO_USD_RATE[Val(cur)][3],
                                  CURRENCY_TO_USD_RATE[Val(cur)][2] % CURRENCY_TO_USD_RATE[Val(cur)][3],
                                  CURRENCY_TO_USD_RATE[Val(cur)][3]),
                          Val(raw)))),
                   code, Some(<<"converted from", Val(code)>>) >>
           ELSE <<raw, None, None>>

\* _parse_monthly_profit(text): <<cents, currency, warning>>
parse_monthly_profit(text) ==
  IF Len(text) = 0 THEN <<None, None, None>>
  ELSE IF ~\E indicator \in { Str_p_slash_mo, Str_slash_mo, Str_per_month,
                               Str_monthly } :
             Contains(Lower(text), indicator)
  THEN <<None, None, None>>
  ELSE parse_price_with_currency(text)

\* re.search(r"(\d+)\s*<unit>", text): <<>> or <<int(group 1)>>
SearchCount(text, unit) ==
  LET starts == { i \in 1..Len(text) :
                    /\ IsDigit(text[i])
                    /\ OccursAt(unit, text, SkipBlanks(text, DigitRunEnd(text, i) + 1)) }
  IN  IF starts = {} THEN None
      ELSE LET i == CHOOSE i \in starts : \A j \in starts : i <= j
           IN  Some(DecimalValue(SubSeq(text, i, DigitRunEnd(text, i))))

\* _parse_site_age with the months counted only when no years are found
parse_site_age_YearsFirst(text) ==
  IF Len(text) = 0 THEN None
  ELSE LET years == SearchCount(Lower(text), Str_year)
           months == SearchCount(Lower(text), Str_month)
           total_months == IF years # None THEN Val(years) * 12
                           ELSE IF months # None THEN Val(months) ELSE 0
       IN  IF total_months > 0 THEN Some(total_months) ELSE None

\* _parse_site_age(text): total months, or None
parse_site_age(text) ==
  IF Len(text) = 0 THEN None
  ELSE LET years == SearchCount(Lower(text), Str_year)
           months == SearchCount(Lower(text), Str_month)
           total_months == (IF years # None THEN Val(years) * 12 ELSE 0)
                             + (IF months # None THEN Val(months) ELSE 0)
       IN  IF total_months > 0 THEN Some(total_months) ELSE None

-----------------------------------------------------------------------------
(* The Flippa card extractor: flippa.py, _extract_cards_from_page *)

MIN_CARD_LINES == 3

flippa_base_url == Chars("https://flippa.com")

\* _extract_id_from_url(url): the digits of the first "/<6 or more digits>"
\* that ends at "?", "/" or the end of the url; else the last path segment
\* of the url without its trailing slashes
extract_id_from_url(url) ==
  LET hits == { i \in 1..Len(url) :
                  /\ url[i] = "/"
                  /\ i + 1 <= Len(url)
                  /\ IsDigit(url[i + 1])
                  /\ DigitRunEnd(url, i + 1) - i >= 6
                  /\ \/ DigitRunEnd(url, i + 1) = Len(url)
                     \/ url[DigitRunEnd(url, i + 1) + 1] \in {"?", "/"} }
      kept == { i \in 1..Len(url) : url[i] # "/" }
      stop == IF kept = {} THEN 0 ELSE CHOOSE i \in kept : \A j \in kept : j <= i
      slashes == { i \in 1..stop : url[i] = "/" }
      from == IF slashes = {} THEN 1
              ELSE (CHOOSE i \in slashes : \A j \in slashes : j <= i) + 1
  IN  IF hits # {}
      THEN LET i == CHOOSE i \in hits : \A j \in hits : i <= j
           IN  SubSeq(url, i + 1, DigitRunEnd(url, i + 1))
      ELSE SubSeq(url, from, stop)

\* the accumulator entry a listing id starts with
NewCardData(url, external_id) ==
  [ url |-> url, external_id |-> external_id, category |-> None, industry |-> None,
    title |-> None, profit_monthly_cents |-> None, original_currency |-> None,
    country |-> None, site_age_months |-> None, has_verified |-> FALSE,
    is_confidential |-> FALSE, has_data_card |-> FALSE, parse_warnings |-> <<>> ]

\* lines = [line.strip() for line in text.split("\n") if line.strip()]
NonEmpty(line) == Len(line) > 0
StrippedLines(text) == SelectSeq([i \in 1..Len(text) |-> Strip(text[i])], NonEmpty)

\* `needle in text` for a needle without a line break; text is given by
\* its lines
InText(text, needle) == \E i \in 1..Len(text) : Contains(text[i], needle)

\* one step of the label loop: the label on `line`, its value on next_line
\* (the entry is bound to its value once, then used)
ApplyLabel(entry, line, next_line) ==
  CHOOSE result \in
    { LET line_lower == Strip(Lower(line))
      IN  IF line_lower = Str_type /\ data.category = None
          THEN [data EXCEPT !.category = Some(next_line)]
          ELSE IF line_lower = Str_industry /\ data.industry = None
          THEN [data EXCEPT !.industry = Some(next_line)]
          ELSE IF line_lower \in {Str_net_profit, Str_monthly_profit}
                    /\ data.profit_monthly_cents = None
          THEN LET parsed == parse_monthly_profit(next_line)
               IN  [data EXCEPT !.profit_monthly_cents = parsed[1],
                                !.original_currency = parsed[2],
                                !.parse_warnings =
                                   IF parsed[3] # None THEN Append(@, Val(parsed[3])) ELSE @]
          ELSE IF line_lower = Str_site_age /\ data.site_age_months = None
          THEN [data EXCEPT !.site_age_months = parse_site_age(next_line)]
          ELSE data
      : data \in {entry} } : TRUE

\* for i, line in enumerate(lines): the labelled values of one block
RECURSIVE LabelScan(_, _, _)
LabelScan(data, lines, i) ==
  IF i + 1 > Len(lines) THEN data
  ELSE LabelScan(ApplyLabel(data, lines[i], lines[i + 1]), lines, i + 1)

\* the first title-like line: contains "|" and is longer than 5
TitleOf(lines) ==
  LET hits == { i \in 1..Len(lines) : Contains(lines[i], <<"|">>) /\ Len(lines[i]) > 5 }
  IN  IF hits = {} THEN None ELSE Some(lines[CHOOSE i \in hits : \A j \in hits : i <= j])

\* the line after the first "location" / "based in" line whose follower has
\* a plausible length
CountryOf(lines) ==
  LET hits == { i \in 1..Len(lines) :
                  /\ \/ Contains(Lower(lines[i]), Str_location)
                     \/ Contains(Lower(lines[i]), Str_based_in)
                  /\ i + 1 <= Len(lines)
                  /\ Len(Strip(lines[i + 1])) > 1
                  /\ Len(Strip(lines[i + 1])) < 50 }
  IN  IF hits = {} THEN None
      ELSE Some(Strip(lines[(CHOOSE i \in hits : \A j \in hits : i <= j) + 1]))

\* lines 545-554: detect the card type and update the confidential flag
MergeFlags(entry, text) ==
  CHOOSE result \in
    { LET has_confidential_marker ==
            InText(text, Str_Confidential) \/ InText(text, Str_Sign_NDA)
          has_data_fields == InText(text, Str_Type) \/ InText(text, Str_Net_Profit)
      IN  IF has_data_fields
          THEN [data EXCEPT !.is_confidential = FALSE, !.has_data_card = TRUE]
          ELSE IF has_confidential_marker /\ ~data.has_data_card
          THEN [data EXCEPT !.is_confidential = TRUE]
          ELSE data
      : data \in {entry} } : TRUE

\* lines 543-597: merge one accepted block into the entry of its listing
MergeBlock(entry, text) ==
  CHOOSE result \in
    { IF labelled.country = None
      THEN [labelled EXCEPT !.country = CountryOf(lines)] ELSE labelled
      : <<lines, labelled>> \in
          { <<ls, LabelScan([flagged EXCEPT
                               !.has_verified =
                                  @ \/ InText(text, Str_Verified_Listing)
                                    \/ InText(text, Str_Verified_Revenue),
                               !.title = IF @ = None THEN TitleOf(ls) ELSE @],
                            ls, 1)>>
            : flagged \in {MergeFlags(entry, text)}, ls \in {StrippedLines(text)} } }
    : TRUE

\* the position of an id in card_data (0 when absent)
IndexOfId(card_data, external_id) ==
  IF \E i \in 1..Len(card_data) : card_data[i].external_id = external_id
  THEN CHOOSE i \in 1..Len(card_data) : card_data[i].external_id = external_id
  ELSE 0

\* the body of `for card in cards`: acc is [card_data, parse_errors]; a
\* block is [href, text, raises], raises saying that reading the element
\* throws (the element left the DOM)
ExtractBlock(accumulator, element) ==
  CHOOSE result \in
    { IF block.href = None \/ Len(Val(block.href)) = 0 THEN acc
      ELSE LET href == Val(block.href)
               url == IF href[1] = "/" THEN flippa_base_url \o href ELSE href
               external_id == extract_id_from_url(url)
               at == IndexOfId(acc.card_data, external_id)
           IN  IF ~IsDigitStr(external_id) THEN acc
               ELSE IF block.raises
               THEN [acc EXCEPT !.parse_errors = Append(@, "Card parse error")]
               ELSE IF Len(StrippedLines(block.text)) < MIN_CARD_LINES THEN acc
               ELSE IF at = 0
               THEN [acc EXCEPT !.card_data =
                       Append(@, MergeBlock(NewCardData(url, external_id), block.text))]
               ELSE [acc EXCEPT !.card_data[at] = MergeBlock(@, block.text)]
      : acc \in {accumulator}, block \in {element} } : TRUE

RECURSIVE ExtractBlocks(_, _)
ExtractBlocks(acc, blocks) ==
  IF Len(blocks) = 0 THEN acc
  ELSE ExtractBlocks(ExtractBlock(acc, Head(blocks)), Tail(blocks))

\* FlippaListingCard(...) from an accumulator entry: has_data_card is dropped
FlippaListingCard(data) ==
  [ url |-> data.url, external_id |-> data.external_id, category |-> data.category,
    industry |-> data.industry, title |-> data.title,
    profit_monthly_cents |-> data.profit_monthly_cents,
    original_currency |-> data.original_currency, country |-> data.country,
    site_age_months |-> data.site_age_months, has_verified |-> data.has_verified,
    is_confidential |-> data.is_confidential, parse_warnings |-> data.parse_warnings ]

\* _extract_cards_from_page(selector) on a page given by its card elements:
\* <<cards, parse_errors>>
flippa_extract_cards_from_page(blocks) ==
  CHOOSE result \in
    { << [i \in 1..Len(acc.card_data) |-> FlippaListingCard(acc.card_data[i])],
         acc.parse_errors >>
      : acc \in {ExtractBlocks([card_data |-> <<>>, parse_errors |-> <<>>], blocks)} }
    : TRUE

-----------------------------------------------------------------------------
(* The Flippa card extractor on one page *)

\* card elements: [href, text (its lines as rendered), raises]
Element(href, text) == [ href |-> Some(Chars(href)), text |-> text, raises |-> FALSE ]

TeaserText == << Chars("Confidential"), Chars("Sign NDA to view"), Chars("View Listing") >>
DataText ==
  << Chars(" Amazon Store | Home "), Chars("Type"), Chars("SaaS"),
     Chars("Net Profit"), Chars("USD $5,000 p/mo"), Chars("") >>
OtherDataText ==
  << Chars("Type"), Chars("Content"), Chars("Industry"), Chars("Design"),
     Chars("Net Profit"), Chars("AUD $2,000 /mo"), Chars("Site Age"), Chars("3 years"),
     Chars("Location"), Chars("Germany") >>
MonthlyProfitText ==
  << Chars("FBA Store | Pets"), Chars("Monthly Profit"), Chars("USD $7,500 p/mo") >>
UndisclosedProfitText ==
  << Chars("Net Profit"), Chars("AUD undisclosed p/mo"), Chars("View Listing") >>
ButtonText == << Chars("View Listing") >>

SampleElements ==
  { Element("/12249202", TeaserText),
    Element("/12249202", DataText),
    Element("/12249202", OtherDataText),
    Element("/12249202", MonthlyProfitText),
    Element("/12249202", UndisclosedProfitText),
    Element("/12249202", ButtonText),
    Element("https://flippa.com/12249203?ref=search", TeaserText),
    Element("/12249203", DataText),
    Element("/about", DataText),
    [ href |-> None, text |-> DataText, raises |-> FALSE ],
    [ href |-> Some(Chars("/12249202")), text |-> DataText, raises |-> TRUE ] }

\* the number of card elements on the page
MaxElements == 3

SamplePages == UNION { [1..n -> SampleElements] : n \in 0..MaxElements }

ExtractInit ==
  /\ page \in SamplePages
  /\ extracted = None
  /\ token = None
  /\ parse_result = None

\* the extractor is not in use
ExtractIdle ==
  /\ page = <<>>
  /\ extracted = None
  /\ token = None
  /\ parse_result = None

ExtractCardsFromPage ==
  /\ extracted = None
  /\ extracted' = Some(flippa_extract_cards_from_page(page))
  /\ UNCHANGED <<page, token, parse_result>>
  /\ UNCHANGED notExtract

-----------------------------------------------------------------------------
(* The Microns card extractor: microns.py, _extract_cards_from_page *)

microns_base_url == Chars("https://www.microns.io")

KNOWN_CATEGORIES ==
  << Chars("Micro-SaaS"), Chars("Web app"), Chars("Mobile app"), Chars("Newsletter"),
     Chars("E-commerce"), Chars("Marketplace"), Chars("Directory"),
     Chars("Browser Extension"), Chars("Agency"), Chars("Content"), Chars("Community") >>

Str_Annual_Revenue == Chars("Annual Revenue")
Str_Asking_Price == Chars("Asking Price")

\* _parse_price(text): cents, or None
parse_price(text) ==
  IF Len(text) = 0 \/ Len(Cleaned(text)) = 0 THEN None ELSE RawCents(Cleaned(text))

\* _parse_price(text) raises
parse_price_raises(text) == Len(Cleaned(text)) > 0 /\ RawCentsRaises(Cleaned(text))

\* s.split("/")[-1]
LastSegment(s) ==
  LET slashes == { i \in 1..Len(s) : s[i] = "/" }
  IN  IF slashes = {} THEN s
      ELSE SubSeq(s, (CHOOSE i \in slashes : \A j \in slashes : j <= i) + 1, Len(s))

\* the known category whose lower-case form is the line's, if any
KnownCategory(line) ==
  LET hits == { i \in 1..Len(KNOWN_CATEGORIES) : Lower(KNOWN_CATEGORIES[i]) = Lower(line) }
  IN  IF hits = {} THEN None ELSE Some(KNOWN_CATEGORIES[CHOOSE i \in hits : TRUE])

\* the lines that qualify as title or description: not a category, not a
\* label, not starting with "$"
Qualifying(lines) ==
  { i \in 1..Len(lines) :
      /\ KnownCategory(lines[i]) = None
      /\ lines[i] \notin {Str_Annual_Revenue, Str_Asking_Price}
      /\ lines[i][1] # "$" }

\* the i-th smallest element of a set of numbers (1-based), or 0
RECURSIVE NthSmallest(_, _)
NthSmallest(S, n) ==
  IF S = {} THEN 0
  ELSE LET least == CHOOSE i \in S : \A j \in S : i <= j
       IN  IF n = 1 THEN least ELSE NthSmallest(S \ {least}, n - 1)

\* the value before the last occurrence of a label that is not the first line
ValueBefore(lines, label) ==
  LET hits == { i \in 2..Len(lines) : lines[i] = label }
  IN  IF hits = {} THEN None
      ELSE parse_price(lines[(CHOOSE i \in hits : \A j \in hits : j <= i) - 1])

\* one .listing-card element, [has_link, href, text]: <<>> when it is
\* skipped, else <<the ListingCard>>
microns_card(b) ==
  IF ~b.has_link \/ b.href = None \/ Len(Val(b.href)) = 0 THEN None
  ELSE LET href == Val(b.href)
           lines == StrippedLines(b.text)
           cats == { i \in 1..Len(lines) : KnownCategory(lines[i]) # None }
           first == NthSmallest(Qualifying(lines), 1)
           second == NthSmallest(Qualifying(lines), 2)
           annual_revenue == ValueBefore(lines, Str_Annual_Revenue)
           asking_price == ValueBefore(lines, Str_Asking_Price)
       IN  Some([ url |-> IF href[1] = "/" THEN microns_base_url \o href ELSE href,
                  slug |-> LastSegment(href),
                  category |-> IF cats = {} THEN None
                               ELSE KnownCategory(lines[CHOOSE i \in cats :
                                                          \A j \in cats : i <= j]),
                  title |-> IF first = 0 THEN None ELSE Some(lines[first]),
                  description |-> IF second = 0 THEN None ELSE Some(lines[second]),
                  annual_revenue |-> annual_revenue,
                  asking_price |-> asking_price,
                  revenue_multiple |->
                    IF annual_revenue # None /\ asking_price # None
                         /\ Val(annual_revenue) > 0 /\ Val(asking_price) # 0
                    THEN Some(<<Val(asking_price), Val(annual_revenue)>>) ELSE None ])

\* _extract_cards_from_page(): the cards of the page's elements, in order
RECURSIVE microns_extract_cards_from_page(_)
microns_extract_cards_from_page(blocks) ==
  IF Len(blocks) = 0 THEN <<>>
  ELSE microns_card(Head(blocks)) \o microns_extract_cards_from_page(Tail(blocks))

\* ListingCard.passes_filter(min_revenue, max_price, category_blacklist)
microns_passes_filter(c, min_revenue, max_price, category_blacklist) ==
  IF min_revenue # None /\ Val(min_revenue) # 0
       /\ (c.annual_revenue = None \/ Val(c.annual_revenue) < Val(min_revenue))
  THEN FALSE
  ELSE IF max_price # None /\ Val(max_price) # 0
            /\ (c.asking_price = None \/ Val(c.asking_price) > Val(max_price))
  THEN FALSE
  ELSE IF category_blacklist # None /\ Val(category_blacklist) # <<>> /\ c.category # None
            /\ Len(Val(c.category)) > 0
            /\ \E i \in 1..Len(Val(category_blacklist)) :
                 Lower(Val(category_blacklist)[i]) = Lower(Val(c.category))
  THEN FALSE
  ELSE TRUE

-----------------------------------------------------------------------------
(* The Acquire card parser: acquire.py *)

acquire_BASE_URL == Chars("https://app.acquire.com")

Str_startup == Chars("/startup/")
Str_http == Chars("http")
Str_TTM_REVENUE == Chars("TTM REVENUE")
Str_TTM_PROFIT == Chars("TTM PROFIT")
Str_ASKING_PRICE == Chars("ASKING PRICE")
Str_TTM == Chars("TTM")
Str_ASKING == Chars("ASKING")
Str_REVENUE == Chars("REVENUE")
Str_PROFIT == Chars("PROFIT")

AcquireCategories ==
  { Chars("SaaS"), Chars("Mobile"), Chars("Digital"), Chars("AI"), Chars("Ecommerce"),
    Chars("Agency"), Chars("Marketplace") }

\* the end of the run of non-stop characters that starts at i (i - 1 when
\* the run is empty)
RECURSIVE RunEnd(_, _, _)
RunEnd(s, i, stops) ==
  IF i <= Len(s) /\ s[i] \notin stops THEN RunEnd(s, i + 1, stops) ELSE i - 1

\* extract_listing_id_from_url(url): group 2 of the first match of
\* /startup/([^/]+)/([^/?]+), or None
extract_listing_id_from_url(url) ==
  LET hits == { i \in 1..Len(url) :
                  /\ OccursAt(Str_startup, url, i)
                  /\ RunEnd(url, i + 9, {"/"}) >= i + 9
                  /\ RunEnd(url, i + 9, {"/"}) + 1 <= Len(url)
                  /\ RunEnd(url, RunEnd(url, i + 9, {"/"}) + 2, {"/", "?"})
                       >= RunEnd(url, i + 9, {"/"}) + 2 }
  IN  IF hits = {} THEN None
      ELSE LET i == CHOOSE i \in hits : \A j \in hits : i <= j
               from == RunEnd(url, i + 9, {"/"}) + 2
           IN  Some(SubSeq(url, from, RunEnd(url, from, {"/", "?"})))

IsNotSeparator(c) == c \notin {",", " "}

\* the end of the run of digits and "." that starts at i (i - 1 when there
\* is none)
NumberRunEnd(s, i) ==
  LET stops == { j \in i..Len(s) : ~IsNumberChar(s[j]) }
  IN  IF stops = {} THEN Len(s)
      ELSE (CHOOSE j \in stops : \A k \in stops : j <= k) - 1

\* re.match(r"\$?([\d.]+)\s*([kKmMbB])?", text) on the stripped text without
\* "," and " ": <<>> or <<[group 1, the power of ten of group 2]>>
money_match(text) ==
  LET t == SelectSeq(Strip(text), IsNotSeparator)
      from == IF Len(t) > 0 /\ t[1] = "$" THEN 2 ELSE 1
      to == NumberRunEnd(t, from)
  IN  IF to < from THEN None
      ELSE Some([ number |-> SubSeq(t, from, to),
                  places |-> IF to + 1 <= Len(t) /\ t[to + 1] \in {"k", "K"} THEN 3
                             ELSE IF to + 1 <= Len(t) /\ t[to + 1] \in {"m", "M"} THEN 6
                             ELSE IF to + 1 <= Len(t) /\ t[to + 1] \in {"b", "B"} THEN 9
                             ELSE 0 ])

\* parse_money(text) raises: int(value * 100) is int(inf), an OverflowError
\* that `except (ValueError, TypeError)` does not catch
parse_money_raises(text) ==
  /\ Len(text) > 0
  /\ money_match(text) # None
  /\ ~IsNotFloat(Val(money_match(text)).number)
  /\ IsInf(Val(money_match(text)).number, Val(money_match(text)).places + 2)

\* parse_money(text): cents, or None
parse_money(text) ==
  LET match == money_match(text)
      number == Val(match).number
      multiplier == Pow10(Val(match).places)
  IN  IF Len(text) = 0 \/ match = None THEN None
      ELSE IF IsNotFloat(number) THEN None
      ELSE IF \A i \in 1..Len(number) : number[i] # "."
      THEN Some(DecimalValue(number) * multiplier * 100)
      ELSE LET value == FloatOfString(number)
               scaled == IF multiplier = 1 THEN value ELSE FloatTimes(value, multiplier)
           IN  Some(FloatToInt(FloatTimes(scaled, 100)))

\* one step of the line loop of the card parser
AcquireLine(parsed, lines, i) ==
  CHOOSE result \in
    { LET line == lines[i]
          upper == Upper(line)
      IN  IF line \in AcquireCategories THEN [c EXCEPT !.category = Some(line)]
          ELSE IF Contains(upper, Str_TTM_REVENUE) /\ i + 1 <= Len(lines)
          THEN [c EXCEPT !.ttm_revenue_cents = parse_money(lines[i + 1])]
          ELSE IF Contains(upper, Str_TTM_PROFIT) /\ i + 1 <= Len(lines)
          THEN [c EXCEPT !.ttm_profit_cents = parse_money(lines[i + 1])]
          ELSE IF Contains(upper, Str_ASKING_PRICE) /\ i + 1 <= Len(lines)
          THEN [c EXCEPT !.asking_price_cents = parse_money(lines[i + 1])]
          ELSE IF Len(line) > 30
                    /\ ~\E x \in {Str_TTM, Str_ASKING, Str_REVENUE, Str_PROFIT} :
                          Contains(upper, x)
                    /\ c.title = None
          THEN [c EXCEPT !.title = Some(line)]
          ELSE c
      : c \in {parsed} } : TRUE

RECURSIVE AcquireLines(_, _, _)
AcquireLines(c, lines, i) ==
  IF i > Len(lines) THEN c ELSE AcquireLines(AcquireLine(c, lines, i), lines, i + 1)

\* AcquireListingCard(...) parsed from the text of a card
AcquireListingCard(href, listing_id, text) ==
  AcquireLines([ url |-> IF OccursAt(Str_http, href, 1) THEN href
                         ELSE acquire_BASE_URL \o href,
                 listing_id |-> listing_id, category |-> None, title |-> None,
                 ttm_revenue_cents |-> None, ttm_profit_cents |-> None,
                 asking_price_cents |-> None ],
               StrippedLines(text), 1)

\* AcquireListingCard.passes_filter(filter_config): <<passes, reason>>
acquire_passes_filter(c, category_blacklist) ==
  IF c.category # None /\ Len(Val(c.category)) > 0 /\ Len(category_blacklist) > 0
       /\ \E i \in 1..Len(category_blacklist) :
            Contains(Lower(Val(c.category)), Lower(category_blacklist[i]))
  THEN <<FALSE, Some(<<"category:", Val(c.category)>>)>>
  ELSE <<TRUE, None>>

\* FilterConfig.category_blacklist: the default
DefaultCategoryBlacklist ==
  << Chars("Newsletter"), Chars("E-commerce"), Chars("Marketplace"), Chars("Directory"),
     Chars("Agency"), Chars("Content"), Chars("Community") >>

-----------------------------------------------------------------------------
(* The index loops: get_listing_cards of the three scrapers *)

\* flippa.py lines 51-55: ScraperDelays, in tenths of a second
BETWEEN_PAGES == 20
BETWEEN_DETAILS == 10
BASE_RETRY == 30

\* acquire.py lines 49-52: the lower ends of AcquireDelays.BETWEEN_LISTINGS,
\* AFTER_SCROLL, AFTER_LOGIN and AFTER_CLICK, in tenths of a second
BETWEEN_LISTINGS_MIN == 15
AFTER_SCROLL_MIN == 10
AFTER_LOGIN_MIN == 20
AFTER_CLICK_MIN == 5

MAX_PAGES == 100
MAX_CONSECUTIVE_FAILURES == 5
MAX_SCROLL_ATTEMPTS == 10
MAX_CONSECUTIVE_EMPTY_SCROLLS == 2
MAX_LISTINGS_PER_RUN == 200

\* Python truthiness of an optional int: `x or default`, `if x and ...`
Truthy(x) == x # None /\ Val(x) # 0
OrDefault(x, default) == IF Truthy(x) THEN Val(x) ELSE default

\* the search pages Flippa may serve: each a sequence of card elements
IndexDataText(category, profit) ==
  << Chars("Type"), Chars(category), Chars("Net Profit"), Chars(profit) >>

FlippaIndexPages ==
  << << Element("/100001", TeaserText),
        Element("/100001", IndexDataText("SaaS", "USD $5,000 p/mo")
                             \o << Chars("Location"), Chars("United States") >>),
        Element("/100002", IndexDataText("Newsletter", "USD $9,000 p/mo")) >>,
     << Element("/100002", IndexDataText("Blog", "USD $100 p/mo")),
        Element("/100003", IndexDataText("SaaS", "USD $500 p/mo")),
        Element("/100003", IndexDataText("App", "$2,000 /mo")) >>,
     << Element("/100002", IndexDataText("Newsletter", "USD $9,000 p/mo")),
        Element("/100001", IndexDataText("SaaS", "USD $5,000 p/mo")) >>,
     << Element("/100001", ButtonText), Element("/about", TeaserText) >>,
     << [ href |-> Some(Chars("/100003")), text |-> TeaserText, raises |-> TRUE ],
        Element("/100003", IndexDataText("SaaS", "USD $500 p/mo")) >>,
     << Element("/100004", IndexDataText("SaaS", "USD $6,000 p/mo")
                             \o << Chars("Location"), Chars("Germany") >>) >> >>

\* _extract_cards_from_page on each of them
FlippaIndexExtracted ==
  << flippa_extract_cards_from_page(FlippaIndexPages[1]),
     flippa_extract_cards_from_page(FlippaIndexPages[2]),
     flippa_extract_cards_from_page(FlippaIndexPages[3]),
     flippa_extract_cards_from_page(FlippaIndexPages[4]),
     flippa_extract_cards_from_page(FlippaIndexPages[5]),
     flippa_extract_cards_from_page(FlippaIndexPages[6]) >>

\* lines 462-470: the texts that tell a rate limit, a CAPTCHA or a block
rate_limit_indicators ==
  << Chars("rate limit"), Chars("too many requests"), Chars("please try again later"),
     Chars("captcha"), Chars("verify you're human"), Chars("access denied"),
     Chars("blocked") >>

\* _detect_rate_limit_or_captcha, lines 456-478, on the outcome of
\* inner_text("body"): None when the call raises, else the text
detect_rate_limit_or_captcha(page_text) ==
  IF page_text = None THEN FALSE
  ELSE \E i \in 1..Len(rate_limit_indicators) :
         Contains(Lower(Val(page_text)), rate_limit_indicators[i])

\* the body texts a loaded search page may show
SampleBodies ==
  { None, Some(Chars("12 results")), Some(Chars("Too Many Requests")),
    Some(Chars("Please complete the CAPTCHA")), Some(Chars("Access denied.")) }

\* the bodies on which the detection is positive, and the others
BlockedBodies == { b \in SampleBodies : detect_rate_limit_or_captcha(b) }
CleanBodies == SampleBodies \ BlockedBodies

\* the body of the page loaded last: none before the first load and after
\* a load that failed
NoPage == [ loaded |-> FALSE, body |-> None ]
Loaded(body) == [ loaded |-> TRUE, body |-> body ]

\* the arguments of get_listing_cards
SampleMaxCounts == { None, Some(0), Some(1), Some(2) }

FlippaIndexInit ==
  /\ source = "flippa"
  /\ idx_args \in [ max_pages : SampleMaxCounts ]
  /\ loc = [ all_cards |-> <<>>, all_errors |-> <<>>, page_num |-> 1, seen_ids |-> {},
             working_selector |-> FALSE, consecutive_failures |-> 0,
             page_text |-> NoPage, slept |-> None ]
  /\ idx_pc = "loop"
  /\ news = <<>>
  /\ served = <<>>

\* the index loop is not in use
IndexIdle ==
  /\ source = "none"
  /\ idx_args = None
  /\ loc = None
  /\ idx_pc = "idle"
  /\ news = <<>>
  /\ served = <<>>

\* line 654: the loop is entered for page_num
FlippaLooping ==
  /\ source = "flippa"
  /\ idx_pc = "loop"
  /\ loc.page_num <= OrDefault(idx_args.max_pages, MAX_PAGES)

\* line 672 with the delay kept at BASE_RETRY
FlippaRetryDelay_Flat(consecutive_failures) == BASE_RETRY

\* line 672: retry_delay after the failure that made the counter
\* consecutive_failures
FlippaRetryDelay(consecutive_failures) == BASE_RETRY * (2 ^ (consecutive_failures - 1))

\* lines 667-686: goto or wait_for_load_state raises: sleep and retry the
\* same page, or give up without sleeping
FlippaLoadFails ==
  /\ FlippaLooping
  /\ \E failures \in { loc.consecutive_failures + 1 } :
       loc' = [loc EXCEPT !.consecutive_failures = failures, !.page_text = NoPage,
                          !.slept = Some(IF failures >= MAX_CONSECUTIVE_FAILURES THEN <<>>
                                         ELSE << FlippaRetryDelay(failures) >>)]
  /\ idx_pc' = IF loc.consecutive_failures + 1 >= MAX_CONSECUTIVE_FAILURES
               THEN "returned" ELSE "loop"
  /\ UNCHANGED <<source, idx_args, news, served>>
  /\ UNCHANGED notIndex

\* lines 691-697 with the page tried again as after a failed load
FlippaOnRateLimit_Retry(l) ==
  << [l EXCEPT !.consecutive_failures = @ + 1], "loop" >>

\* lines 691-697: the note is added and the loop is left; <<loc, idx_pc>>
FlippaOnRateLimit(l) ==
  << [l EXCEPT !.consecutive_failures = 0, !.slept = Some(<<>>),
               !.all_errors = Append(@, <<"Rate limit detected on page ", l.page_num>>)],
     "returned" >>

\* the page loads and shows a rate limit or CAPTCHA text
FlippaRateLimited ==
  /\ FlippaLooping
  /\ \E body \in BlockedBodies :
     \E after \in {FlippaOnRateLimit([loc EXCEPT !.page_text = Loaded(body)])} :
       /\ loc' = after[1]
       /\ idx_pc' = after[2]
  /\ UNCHANGED <<source, idx_args, news, served>>
  /\ UNCHANGED notIndex

\* the first loaded page matches none of the card selectors
FlippaNoSelector ==
  /\ FlippaLooping
  /\ ~loc.working_selector
  /\ \E body \in CleanBodies :
       loc' = [loc EXCEPT !.consecutive_failures = 0, !.slept = Some(<<>>),
                          !.page_text = Loaded(body),
                          !.all_errors = Append(@, "No working card selector found")]
  /\ idx_pc' = "returned"
  /\ UNCHANGED <<source, idx_args, news, served>>
  /\ UNCHANGED notIndex

\* _wait_for_content(working_selector) gives up
FlippaNoContent ==
  /\ FlippaLooping
  /\ \E body \in CleanBodies :
       loc' = [loc EXCEPT !.consecutive_failures = 0, !.working_selector = TRUE,
                          !.slept = Some(<<>>), !.page_text = Loaded(body)]
  /\ idx_pc' = "returned"
  /\ UNCHANGED <<source, idx_args, news, served>>
  /\ UNCHANGED notIndex

\* lines 722-728 with the seen_ids test left out
RECURSIVE AddNewCards_NoSeenCheck(_, _, _)
AddNewCards_NoSeenCheck(all_cards, seen_ids, page_cards) ==
  IF Len(page_cards) = 0 THEN <<all_cards, seen_ids>>
  ELSE AddNewCards_NoSeenCheck(Append(all_cards, Head(page_cards)),
                               seen_ids \cup {Head(page_cards).external_id},
                               Tail(page_cards))

\* lines 722-728: add the page's cards whose id is new; <<all_cards, seen_ids>>
RECURSIVE AddNewCards(_, _, _)
AddNewCards(all_cards, seen_ids, page_cards) ==
  IF Len(page_cards) = 0 THEN <<all_cards, seen_ids>>
  ELSE IF Head(page_cards).external_id \in seen_ids
  THEN AddNewCards(all_cards, seen_ids, Tail(page_cards))
  ELSE AddNewCards(Append(all_cards, Head(page_cards)),
                   seen_ids \cup {Head(page_cards).external_id},
                   Tail(page_cards))

\* lines 734-745 without the zero-new test
FlippaAfterPage_NoZeroStop(max_pages, page_num, new_count) ==
  IF Truthy(max_pages) /\ page_num >= Val(max_pages) THEN "returned"
  ELSE IF page_num + 1 > OrDefault(max_pages, MAX_PAGES) THEN "returned"
  ELSE "loop"

\* lines 734-745: the stopping conditions after a page was added, then
\* line 654, the loop condition for the next page
FlippaAfterPage(max_pages, page_num, new_count) ==
  IF Truthy(max_pages) /\ page_num >= Val(max_pages) THEN "returned"
  ELSE IF new_count = 0 THEN "returned"
  ELSE IF page_num + 1 > OrDefault(max_pages, MAX_PAGES) THEN "returned"
  ELSE "loop"

\* lines 716-744: the sleeps of an iteration that extracted page_cards;
\* the politeness delay is slept when no break was taken
FlippaPageSleeps(max_pages, page_num, page_cards, new_count) ==
  IF Len(page_cards) = 0 THEN <<>>
  ELSE IF Truthy(max_pages) /\ page_num >= Val(max_pages) THEN <<>>
  ELSE IF new_count = 0 THEN <<>>
  ELSE << BETWEEN_PAGES >>

\* lines 713-745: the page served is sample k (0: none of the samples),
\* loaded with the body text `body`, and _extract_cards_from_page gives
\* `result`
FlippaPageRead(k, result, body) ==
  \E added \in {AddNewCards(loc.all_cards, loc.seen_ids, result[1])} :
  \E new_count \in {Len(added[1]) - Len(loc.all_cards)} :
  \E next_pc \in { IF Len(result[1]) = 0 THEN "returned"
                   ELSE FlippaAfterPage(idx_args.max_pages, loc.page_num, new_count) } :
    /\ served' = Append(served, k)
    /\ news' = Append(news, new_count)
    /\ loc' = [loc EXCEPT !.consecutive_failures = 0,
                          !.working_selector = TRUE,
                          !.page_text = Loaded(body),
                          !.slept = Some(FlippaPageSleeps(idx_args.max_pages,
                                                          loc.page_num, result[1],
                                                          new_count)),
                          !.all_errors = @ \o result[2],
                          !.all_cards = added[1],
                          !.seen_ids = added[2],
                          !.page_num = IF next_pc = "loop" THEN @ + 1 ELSE @]
    /\ idx_pc' = next_pc

\* the page loads and its cards are extracted
FlippaPage ==
  /\ FlippaLooping
  /\ \E k \in 1..Len(FlippaIndexPages), body \in CleanBodies :
       FlippaPageRead(k, FlippaIndexExtracted[k], body)
  /\ UNCHANGED <<source, idx_args>>
  /\ UNCHANGED notIndex

\* a site that never runs out of listings: search page n shows one
\* listing, with id 200000 + n
FreshPage(n) ==
  << [ href |-> Some(<< "/", "2", "0", "0", DigitChars[((n \div 100) % 10) + 1],
                        DigitChars[((n \div 10) % 10) + 1], DigitChars[(n % 10) + 1] >>),
       text |-> IndexDataText("SaaS", "USD $5,000 p/mo"),
       raises |-> FALSE ] >>

\* the page loads and shows a listing not seen before
FlippaFreshPage ==
  /\ FlippaLooping
  /\ \E body \in CleanBodies :
       FlippaPageRead(0, flippa_extract_cards_from_page(FreshPage(loc.page_num)), body)
  /\ UNCHANGED <<source, idx_args>>
  /\ UNCHANGED notIndex

\* get_listing_cards(max_pages) against that site
LargePageCounts == { None, Some(0), Some(MAX_PAGES - 1), Some(MAX_PAGES + 1) }

FlippaPagingInit ==
  /\ source = "flippa"
  /\ idx_args \in [ max_pages : LargePageCounts ]
  /\ loc = [ all_cards |-> <<>>, all_errors |-> <<>>, page_num |-> 1, seen_ids |-> {},
             working_selector |-> FALSE, consecutive_failures |-> 0,
             page_text |-> NoPage, slept |-> None ]
  /\ idx_pc = "loop"
  /\ news = <<>>
  /\ served = <<>>

PagingNext ==
  \/ FlippaLoadFails
  \/ FlippaRateLimited
  \/ FlippaNoSelector
  \/ FlippaNoContent
  \/ FlippaFreshPage

(* Microns: get_listing_cards *)

MicronsElement(href, text) == [ has_link |-> TRUE, href |-> Some(Chars(href)), text |-> text ]

MicronsText(category, title, revenue, price) ==
  << Chars(category), Chars(title), Chars("A small online business"),
     Chars(revenue), Chars("Annual Revenue"), Chars(price), Chars("Asking Price") >>

NewsletterElement ==
  MicronsElement("/listings/daily-brief",
                 MicronsText("Newsletter", "Daily Brief", "$80,000", "$90,000"))
MicroSaaSElement ==
  MicronsElement("/listings/invoice-tool",
                 MicronsText("Micro-SaaS", "Invoice Tool", "$50,000", "$120,000"))
WebAppElement ==
  MicronsElement("/listings/habit-app",
                 MicronsText("Web app", "Habit Community App", "$5,000", "$20,000"))
NoLinkElement == [ has_link |-> FALSE, href |-> None, text |-> << Chars("Sponsored") >> ]

\* the listing pages Microns may serve: each a sequence of .listing-card elements
MicronsIndexPages ==
  << << NewsletterElement, MicroSaaSElement >>,
     << MicroSaaSElement, NoLinkElement, WebAppElement >>,
     << MicroSaaSElement, NewsletterElement >>,
     << NoLinkElement >> >>

\* _extract_cards_from_page on each of them
MicronsIndexExtracted ==
  << microns_extract_cards_from_page(MicronsIndexPages[1]),
     microns_extract_cards_from_page(MicronsIndexPages[2]),
     microns_extract_cards_from_page(MicronsIndexPages[3]),
     microns_extract_cards_from_page(MicronsIndexPages[4]) >>

\* the number of index pages a Microns run may load in the model (the loop
\* of the code has no bound of its own)
MaxMicronsPages == 3

MicronsIndexInit ==
  /\ source = "microns"
  /\ idx_args \in [ max_pages : SampleMaxCounts ]
  /\ loc = [ all_cards |-> <<>>, page_num |-> 1, seen_slugs |-> {}, slept |-> None ]
  /\ idx_pc = "loop"
  /\ news = <<>>
  /\ served = <<>>

MicronsLooping ==
  /\ source = "microns"
  /\ idx_pc = "loop"

\* page.goto or wait_for_load_state raises: the exception leaves get_listing_cards
MicronsGotoRaises ==
  /\ MicronsLooping
  /\ idx_pc' = "raised"
  /\ loc' = [loc EXCEPT !.slept = Some(<<>>)]
  /\ UNCHANGED <<source, idx_args, news, served>>
  /\ UNCHANGED notIndex

\* wait_for_selector(CARD_SELECTOR) times out: the end is reached
MicronsNoCards ==
  /\ MicronsLooping
  /\ idx_pc' = "returned"
  /\ loc' = [loc EXCEPT !.slept = Some(<<>>)]
  /\ UNCHANGED <<source, idx_args, news, served>>
  /\ UNCHANGED notIndex

\* lines 336-342: add the page's cards whose slug is new; <<all_cards, seen_slugs>>
RECURSIVE AddNewSlugs(_, _, _)
AddNewSlugs(all_cards, seen_slugs, page_cards) ==
  IF Len(page_cards) = 0 THEN <<all_cards, seen_slugs>>
  ELSE IF Head(page_cards).slug \in seen_slugs
  THEN AddNewSlugs(all_cards, seen_slugs, Tail(page_cards))
  ELSE AddNewSlugs(Append(all_cards, Head(page_cards)),
                   seen_slugs \cup {Head(page_cards).slug},
                   Tail(page_cards))

\* lines 347-356: the stopping conditions after a page was added
MicronsAfterPage(max_pages, page_num, has_next) ==
  IF Truthy(max_pages) /\ page_num >= Val(max_pages) THEN "returned"
  ELSE IF ~has_next THEN "returned"
  ELSE "loop"

\* the last `window` entries of a history; all of them when window is 0
Kept(history, window) ==
  IF window > 0 /\ Len(history) > window
  THEN SubSeq(history, Len(history) - window + 1, Len(history)) ELSE history

\* lines 329-356: the page loads, shows cards and they are extracted;
\* has_next says that the page links to the next page. With a window the
\* histories keep their last entries only and, when no max_pages is given
\* (the loop then never tests page_num), page numbers from the window on
\* are not told apart
MicronsPageRead(window) ==
  \E k \in 1..Len(MicronsIndexPages), has_next \in BOOLEAN :
  \E page_cards \in {MicronsIndexExtracted[k]} :
  \E added \in {AddNewSlugs(loc.all_cards, loc.seen_slugs, page_cards)} :
  \E next_pc \in { IF Len(page_cards) = 0 THEN "returned"
                   ELSE MicronsAfterPage(idx_args.max_pages, loc.page_num, has_next) } :
    /\ served' = Kept(Append(served, k), window)
    /\ news' = Kept(Append(news, Len(added[1]) - Len(loc.all_cards)), window)
    /\ loc' = [loc EXCEPT !.all_cards = added[1],
                          !.seen_slugs = added[2],
                          !.slept = Some(<<>>),
                          !.page_num = IF next_pc # "loop" THEN @
                                       ELSE IF window > 0 /\ ~Truthy(idx_args.max_pages)
                                                          /\ @ >= window
                                       THEN @ ELSE @ + 1]
    /\ idx_pc' = next_pc

\* one more page, in a run of up to MaxMicronsPages pages
MicronsPage ==
  /\ MicronsLooping
  /\ Len(served) < MaxMicronsPages
  /\ MicronsPageRead(0)
  /\ UNCHANGED <<source, idx_args>>
  /\ UNCHANGED notIndex

\* one more page, in a run of any length
MicronsPageOn ==
  /\ MicronsLooping
  /\ MicronsPageRead(MaxMicronsPages)
  /\ UNCHANGED <<source, idx_args>>
  /\ UNCHANGED notIndex

(* Acquire: get_listing_cards *)

AcquireLink(href, text) == [ href |-> Some(Chars(href)), text |-> text, raises |-> FALSE ]

AcquireText(category, revenue, price) ==
  << Chars(category), Chars("A profitable business with recurring customers"),
     Chars("TTM REVENUE"), Chars(revenue), Chars("ASKING PRICE"), Chars(price) >>

\* the views of the all-listing page Acquire may show: each a sequence of
\* links whose href contains /startup/
AcquireIndexViews ==
  << << AcquireLink("/startup/saas-tool/a1", AcquireText("SaaS", "$120k", "$300k")),
        AcquireLink("/startup/studio/a2", AcquireText("Agency", "$80k", "$100k")) >>,
     << AcquireLink("/startup/saas-tool/a1", AcquireText("SaaS", "$120k", "$300k")),
        AcquireLink("/startup/", AcquireText("SaaS", "$1k", "$2k")),
        AcquireLink("https://app.acquire.com/startup/shop/a3?ref=list",
                    AcquireText("Ecommerce", "$1.5M", "$2M")) >>,
     << [ href |-> Some(Chars("/startup/crm/a4")),
          text |-> AcquireText("SaaS", "$10k", "$20k"), raises |-> TRUE ],
        [ href |-> None, text |-> <<>>, raises |-> FALSE ],
        AcquireLink("/startup/crm/a4", AcquireText("SaaS", "$10k", "$20k")) >> >>

SampleKnownIds == { {}, {Chars("a1")} }

AcquireIndexArgs ==
  [ early_stop : {None, Some(2)},
    max_scrolls : {None, Some(1), Some(3)},
    skip_known : BOOLEAN,
    known_ids : SampleKnownIds ]

\* the object fields and local variables before get_listing_cards runs:
\* logins counts the calls of login(), auth is how the login went and
\* listings_requested says that the all-listing page was requested
AcquireLocals ==
  [ cards |-> <<>>, seen_ids |-> {}, empty_scroll_count |-> 0, scroll_count |-> 0,
    logged_in |-> FALSE, logins |-> 0, auth |-> "none", listings_requested |-> FALSE,
    slept |-> None ]

\* the ways login() fails: the credentials are missing from the environment
\* (ValueError, lines 234-237), or the click is not followed by a redirect
\* (it returns False, lines 283-286, and the caller raises RuntimeError)
AuthFailures == { "no_credentials", "no_redirect" }

\* lines 226-286 with a second attempt after a failed one
login_Again(l, outcome) ==
  [l EXCEPT !.logins = IF outcome = "ok" THEN @ + 1 ELSE @ + 2,
            !.auth = outcome, !.logged_in = (outcome = "ok"),
            !.slept = IF outcome = "ok" THEN Some(<< AFTER_LOGIN_MIN >>)
                      ELSE IF outcome = "no_redirect" THEN Some(<<>>) ELSE @]

\* lines 226-286: login() is called once, with an outcome
login(l, outcome) ==
  [l EXCEPT !.logins = @ + 1, !.auth = outcome, !.logged_in = (outcome = "ok"),
            !.slept = IF outcome = "ok" THEN Some(<< AFTER_LOGIN_MIN >>)
                      ELSE IF outcome = "no_redirect" THEN Some(<<>>) ELSE @]

AcquireIndexInit ==
  /\ source = "acquire"
  /\ idx_args \in { a \in AcquireIndexArgs : ~a.skip_known => a.known_ids = {} }
  /\ loc = AcquireLocals
  /\ idx_pc = "login"
  /\ news = <<>>
  /\ served = <<>>

\* lines 354-356: login() raises or returns False, and get_listing_cards
\* raises
AcquireLoginFails ==
  /\ source = "acquire"
  /\ idx_pc = "login"
  /\ ~loc.logged_in
  /\ \E outcome \in AuthFailures : loc' = login(loc, outcome)
  /\ idx_pc' = "raised"
  /\ UNCHANGED <<source, idx_args, news, served>>
  /\ UNCHANGED notIndex

\* the login succeeds and loading the listings page raises
AcquireStartFails ==
  /\ source = "acquire"
  /\ idx_pc = "login"
  /\ loc' = [login(loc, "ok") EXCEPT !.listings_requested = TRUE, !.slept = Some(<<>>)]
  /\ idx_pc' = "raised"
  /\ UNCHANGED <<source, idx_args, news, served>>
  /\ UNCHANGED notIndex

\* the login succeeds and the listings page is loaded
AcquireStart ==
  /\ source = "acquire"
  /\ idx_pc = "login"
  /\ loc' = [login(loc, "ok") EXCEPT !.listings_requested = TRUE,
                                     !.slept = Some(<< AFTER_CLICK_MIN >>)]
  /\ idx_pc' = "loop"
  /\ UNCHANGED <<source, idx_args, news, served>>
  /\ UNCHANGED notIndex

AcquireLooping ==
  /\ source = "acquire"
  /\ idx_pc = "loop"
  /\ loc.scroll_count < OrDefault(idx_args.max_scrolls, MAX_SCROLL_ATTEMPTS)

\* while scroll_count < scroll_limit: the condition fails
AcquireLoopExit ==
  /\ source = "acquire"
  /\ idx_pc = "loop"
  /\ loc.scroll_count >= OrDefault(idx_args.max_scrolls, MAX_SCROLL_ATTEMPTS)
  /\ idx_pc' = "returned"
  /\ UNCHANGED <<source, idx_args, loc, news, served>>
  /\ UNCHANGED notIndex

\* lines 386-452, the body of `for link in card_links`: acc is
\* [cards, seen_ids, new_seen_this_scroll]
AcquireCardLink(accumulator, link, skip_known, known_ids) ==
  CHOOSE result \in
    { IF link.href = None \/ Len(Val(link.href)) = 0
           \/ ~Contains(Val(link.href), Str_startup)
      THEN acc
      ELSE LET listing_id == extract_listing_id_from_url(Val(link.href))
           IN  IF listing_id = None \/ Val(listing_id) \in acc.seen_ids THEN acc
               ELSE IF (skip_known /\ Val(listing_id) \in known_ids) \/ link.raises
               THEN [acc EXCEPT !.seen_ids = @ \cup {Val(listing_id)},
                                !.new_seen_this_scroll = @ + 1]
               ELSE [acc EXCEPT !.seen_ids = @ \cup {Val(listing_id)},
                                !.new_seen_this_scroll = @ + 1,
                                !.cards = Append(@, AcquireListingCard(Val(link.href),
                                                                       Val(listing_id),
                                                                       link.text))]
      : acc \in {accumulator} } : TRUE

\* the loop over links[first..last], in order (the range is halved so that
\* a long list is read at a small depth of evaluation)
RECURSIVE AcquireCardLinksIn(_, _, _, _, _, _)
AcquireCardLinksIn(acc, links, first, last, skip_known, known_ids) ==
  IF first > last THEN acc
  ELSE IF first = last THEN AcquireCardLink(acc, links[first], skip_known, known_ids)
  ELSE CHOOSE result \in
         { AcquireCardLinksIn(half, links, ((first + last) \div 2) + 1, last,
                              skip_known, known_ids)
           : half \in { AcquireCardLinksIn(acc, links, first, (first + last) \div 2,
                                           skip_known, known_ids) } } : TRUE

AcquireCardLinks(acc, links, skip_known, known_ids) ==
  AcquireCardLinksIn(acc, links, 1, Len(links), skip_known, known_ids)

\* lines 460-482: the stopping conditions after a view was read
AcquireAfterView(early_stop, empty_scroll_count, card_count) ==
  IF empty_scroll_count >= MAX_CONSECUTIVE_EMPTY_SCROLLS THEN "returned"
  ELSE IF Truthy(early_stop) /\ card_count >= Val(early_stop) THEN "returned"
  ELSE IF card_count >= MAX_LISTINGS_PER_RUN THEN "returned"
  ELSE "loop"

\* one pass of the scroll loop: the links in view are read, then the page
\* is scrolled unless the loop stops
AcquireViewRead(k, card_links) ==
  \E read \in { AcquireCardLinks([ cards |-> loc.cards, seen_ids |-> loc.seen_ids,
                                   new_seen_this_scroll |-> 0 ],
                                 card_links,
                                 idx_args.skip_known, idx_args.known_ids) } :
  \E empty \in { IF read.new_seen_this_scroll = 0
                 THEN loc.empty_scroll_count + 1 ELSE 0 } :
  \E next_pc \in { AcquireAfterView(idx_args.early_stop, empty, Len(read.cards)) } :
    /\ served' = Append(served, k)
    /\ news' = Append(news, read.new_seen_this_scroll)
    /\ loc' = [loc EXCEPT !.cards = read.cards,
                          !.seen_ids = read.seen_ids,
                          !.empty_scroll_count = empty,
                          !.slept = IF next_pc = "loop" THEN Some(<< AFTER_SCROLL_MIN >>)
                                    ELSE @,
                          !.scroll_count = IF next_pc = "loop" THEN @ + 1 ELSE @]
    /\ idx_pc' = next_pc

AcquireView ==
  /\ AcquireLooping
  /\ \E k \in 1..Len(AcquireIndexViews) : AcquireViewRead(k, AcquireIndexViews[k])
  /\ UNCHANGED <<source, idx_args>>
  /\ UNCHANGED notIndex

\* the number of links a view of the all-listing page may expose at once
LargeViewLinks == 201

\* a view of that many links, each to a listing of its own
LargeView ==
  [ n \in 1..LargeViewLinks |->
      [ href |-> Some(Chars("/startup/shop/b")
                       \o << DigitChars[((n \div 100) % 10) + 1],
                             DigitChars[((n \div 10) % 10) + 1], DigitChars[(n % 10) + 1] >>),
        text |-> AcquireText("Ecommerce", "$1.5M", "$2M"), raises |-> FALSE ] ]

\* one pass of the scroll loop over such a view
AcquireLargeView ==
  /\ AcquireLooping
  /\ AcquireViewRead(0, LargeView)
  /\ UNCHANGED <<source, idx_args>>
  /\ UNCHANGED notIndex

\* get_listing_cards of Acquire on a page whose views may be large
ScrollNext ==
  \/ AcquireLoginFails
  \/ AcquireStartFails
  \/ AcquireStart
  \/ AcquireLoopExit
  \/ AcquireView
  \/ AcquireLargeView

IndexNext ==
  \/ FlippaLoadFails
  \/ FlippaRateLimited
  \/ FlippaNoSelector
  \/ FlippaNoContent
  \/ FlippaPage
  \/ MicronsGotoRaises
  \/ MicronsNoCards
  \/ MicronsPage
  \/ AcquireLoginFails
  \/ AcquireStartFails
  \/ AcquireStart
  \/ AcquireLoopExit
  \/ AcquireView

-----------------------------------------------------------------------------
(* The filtered pipelines: scrape_with_filter, run_with_filter and the    *)
(* run scripts that save their results                                     *)

MAX_DETAIL_RETRIES == 3

\* config.py line 72: ScraperConfig.request_delay_seconds, in tenths of a
\* second
request_delay_seconds == 10

\* get_known_external_ids(source_id): the external ids stored for a source
get_known_external_ids(rows, source_id) ==
  { r.external_id : r \in { x \in rows : x.source_id = source_id } }

\* FilterConfig values: the defaults, and a $10,000 floor
DefaultFilters ==
  [ min_annual_revenue |-> None, max_asking_price |-> None,
    category_blacklist |-> DefaultCategoryBlacklist ]
FloorFilters == [DefaultFilters EXCEPT !.min_annual_revenue = Some(1000000)]

\* config.py lines 44-60: FilterConfig.with_overrides; only the values that
\* are not None replace the fields of self (an empty list is not None)
with_overrides(self, min_annual_revenue, max_asking_price, category_blacklist) ==
  [ min_annual_revenue |-> IF min_annual_revenue # None
                           THEN min_annual_revenue ELSE self.min_annual_revenue,
    max_asking_price   |-> IF max_asking_price # None
                           THEN max_asking_price ELSE self.max_asking_price,
    category_blacklist |-> IF category_blacklist # None
                           THEN Val(category_blacklist) ELSE self.category_blacklist ]

\* run_flippa_scrape.py lines 379-382, run_microns_scrape.py lines 205-209:
\* the filters of a run started with --skip-blacklist
SkipBlacklistFilters == with_overrides(DefaultFilters, None, None, Some(<<>>))

SampleFilters == { DefaultFilters, FloorFilters, SkipBlacklistFilters }

\* the ListingCreate a detail scrape returns: the key fields as the code
\* derives them from the url, the country as found, the page's other
\* fields left out
DetailListing(source_id, external_id, url, country) ==
  ListingCreate(<<source_id, external_id>>,
                [ url |-> url, title |-> None, category |-> None, asking_price |-> None,
                  annual_revenue |-> None, customers |-> None, launched_year |-> None,
                  posted_at |-> None, description |-> None, location |-> None,
                  country |-> country, raw_data |-> Some({ <<"url", url>> }) ])

\* scrape_listing with the detail page's country taken before the card's
FlippaDetail_PageFirst(c, found_country) ==
  DetailListing("flippa", extract_id_from_url(c.url), c.url,
                IF found_country # None /\ Len(Val(found_country)) > 0 THEN found_country
                ELSE c.country)

\* flippa.py scrape_listing: lines 786, 861-876, 929-943
FlippaDetail(c, found_country) ==
  DetailListing("flippa", extract_id_from_url(c.url), c.url,
                IF c.country # None /\ Len(Val(c.country)) > 0 THEN c.country
                ELSE found_country)

\* microns.py scrape_listing: lines 384, 477-490
MicronsDetail(c) == DetailListing("microns", LastSegment(c.url), c.url, None)

\* Python truthiness of an optional str
TruthyStr(x) == x # None /\ Len(Val(x)) > 0

\* `if not value and card_data and card_data.field: value = card_data.field`
\* for an optional str and for an optional int
FallbackStr(value, card_value) ==
  IF ~TruthyStr(value) /\ TruthyStr(card_value) THEN card_value ELSE value
FallbackInt(value, card_value) ==
  IF ~Truthy(value) /\ Truthy(card_value) THEN card_value ELSE value

\* what an Acquire detail page yields for the fields that have a card
\* fallback: the title found, the category label found, and the amounts
\* parse_money returns for the labelled lines
SampleAcquirePages ==
  { [ title |-> Some(Chars("Invoicing tool with recurring revenue")),
      category |-> Some(Chars("Marketplace")), asking_price_cents |-> Some(25000000),
      ttm_revenue_cents |-> Some(9000000), ttm_profit_cents |-> Some(3000000),
      arr_cents |-> None, country |-> Some(Chars("United States")) ],
    [ title |-> None, category |-> None, asking_price_cents |-> None,
      ttm_revenue_cents |-> None, ttm_profit_cents |-> None, arr_cents |-> None,
      country |-> None ],
    [ title |-> None, category |-> None, asking_price_cents |-> parse_money(Chars("$0")),
      ttm_revenue_cents |-> parse_money(Chars("$0")), ttm_profit_cents |-> None,
      arr_cents |-> None, country |-> None ] }

\* acquire.py scrape_listing: lines 520-522, 598-601, 669-678, 785-815
AcquireDetail(c, found) ==
  LET listing_id == Val(extract_listing_id_from_url(c.url))
      card_title == FallbackStr(found.title, c.title)
      category == FallbackStr(found.category, c.category)
      title == IF TruthyStr(card_title) THEN card_title
               ELSE Some((IF TruthyStr(category) THEN Val(category) ELSE Chars("Listing"))
                           \o Chars(" (")
                           \o SubSeq(listing_id, 1, IF Len(listing_id) < 8 THEN Len(listing_id)
                                                    ELSE 8)
                           \o Chars("...)"))
      ttm_revenue_cents == FallbackInt(found.ttm_revenue_cents, c.ttm_revenue_cents)
  IN  [ DetailListing("acquire", listing_id, c.url, found.country)
          EXCEPT !.title = title,
                 !.category = category,
                 !.asking_price = FallbackInt(found.asking_price_cents, c.asking_price_cents),
                 !.annual_revenue = IF Truthy(found.arr_cents) THEN found.arr_cents
                                    ELSE ttm_revenue_cents ]

\* scrape_listing has returned `listing` for card c from a detail page that
\* yielded `found`: the run's record of it
Scraped(run, c, found, listing) ==
  [run EXCEPT !.scraped = Append(@, [ card |-> c, found |-> found, listing |-> listing ])]

\* the countries a detail page may show
DetailCountries == { None, Some(Chars("United States")), Some(Chars("Germany")) }

\* a number of 309 digits, which float() reads as inf
HugeToken == [i \in 1..Len(FLOAT_OVERFLOW) |-> "9"]

\* the line a Flippa detail page may show for its asking price: the first
\* line with a "$" after the "Asking Price" label, if any
SamplePriceLines ==
  { None, Some(Chars("USD $54,200")), Some(Chars("$1.2.3")), Some(<<"$">> \o HugeToken) }

\* flippa.py lines 805-815: asking_price_cents from that line, and whether
\* parse_price_with_currency raises on it
FlippaAskingPrices ==
  [ line \in SamplePriceLines |->
      IF line = None
      THEN [ raises |-> FALSE, asking_price_cents |-> None ]
      ELSE IF parse_price_with_currency_raises(Val(line))
      THEN [ raises |-> TRUE, asking_price_cents |-> None ]
      ELSE [ raises |-> FALSE,
             asking_price_cents |-> IF Truthy(parse_price_with_currency(Val(line))[1])
                                    THEN parse_price_with_currency(Val(line))[1]
                                    ELSE None ] ]

\* what a loaded Flippa detail page may show
SampleFlippaPages ==
  { [ country |-> country, price_line |-> Some(Chars("USD $54,200")) ] :
      country \in DetailCountries }
    \cup { [ country |-> None, price_line |-> None ],
           [ country |-> Some(Chars("United States")), price_line |-> Some(Chars("$1.2.3")) ],
           [ country |-> Some(Chars("United States")),
             price_line |-> Some(<<"$">> \o HugeToken) ] }

\* flippa.py lines 786-943: the listing scrape_listing returns for card c
\* from a loaded page
FlippaListing(c, found) ==
  [FlippaDetail(c, found.country)
     EXCEPT !.asking_price = FlippaAskingPrices[found.price_line].asking_price_cents]

\* int(float(cleaned) * 100) on a number that float() reads as inf
OverflowError ==
  [ type |-> "OverflowError", message |-> "cannot convert float infinity to integer" ]

\* the sleeps since the last page navigation of the run: None when there
\* was none
SinceNavigation == IF pipe.slept # None THEN pipe.slept ELSE loc.slept

\* a detail page is requested after the sleeps `before` and the sleeps
\* `after` follow the request: gap holds the sleeps between the
\* navigation before this one and this one
Navigated(run, before, after) ==
  [run EXCEPT !.gap = IF SinceNavigation = None THEN None
                      ELSE Some(Val(SinceNavigation) \o before),
              !.slept = Some(after)]

\* a row stored by an earlier run
StoredRow(source_id, external_id) ==
  CHOOSE r \in UpsertRows({}, SaveListingArgs(DetailListing(source_id, external_id,
                                                          <<>>, None)), 0, 0) : TRUE

\* the keys the pipelines may save
PipeKeys ==
  ({"flippa"} \X { Chars("100001"), Chars("100002"), Chars("100003") })
    \cup ({"microns"} \X { Chars("daily-brief"), Chars("invoice-tool"), Chars("habit-app") })
    \cup ({"acquire"} \X { Chars("a1"), Chars("a2"), Chars("a3"), Chars("a4") })

\* the store at the start of a run that finds `rows` stored
PipeStore(rows) ==
  /\ listings = rows
  /\ clock = 0
  /\ uuid_count = 0
  /\ last_call = None
  /\ upserted = [ k \in PipeKeys |->
                    IF \E r \in rows : <<r.source_id, r.external_id>> = k THEN 1 ELSE 0 ]

\* the local variables of a filtered run before phase 2
NewRun(args, known_ids) ==
  [ args |-> args, known_ids |-> known_ids, to_scrape |-> <<>>, to_check |-> <<>>,
    skipped_filter |-> <<>>, skipped_known |-> <<>>, listings |-> <<>>, errors |-> <<>>,
    raised |-> <<>>, pos |-> 0, retry_count |-> 0, saved |-> 0, browser |-> "none",
    to_refresh |-> <<>>, rate_limiter |-> None, waits |-> <<>>,
    stats |-> [ new |-> 0, updated |-> 0, save_errors |-> 0 ], save_failures |-> 0,
    scraped |-> <<>>, slept |-> None, gap |-> None ]

\* the pipelines are not in use
PipeIdle ==
  /\ pipe_pc = "idle"
  /\ pipe = None
  /\ fetched = <<>>

SamplePageCounts == { Some(1), Some(2) }

\* run_flippa_scrape: scrape_with_filter up to the call of get_listing_cards
FlippaPipelineInit ==
  /\ PipeStore({ StoredRow("flippa", Chars("100001")) })
  /\ source = "flippa"
  /\ \E args \in [ mode : {"filter"}, filters : SampleFilters, max_pages : SamplePageCounts,
                   skip_known : BOOLEAN, us_only : BOOLEAN, verified_only : {FALSE},
                   dry_run : {FALSE} ] :
       /\ pipe = NewRun(args, IF args.skip_known
                              THEN get_known_external_ids(listings, "flippa") ELSE {})
       /\ idx_args = [ max_pages |-> args.max_pages ]
  /\ loc = [ all_cards |-> <<>>, all_errors |-> <<>>, page_num |-> 1, seen_ids |-> {},
             working_selector |-> FALSE, consecutive_failures |-> 0,
             page_text |-> NoPage, slept |-> None ]
  /\ idx_pc = "waiting"
  /\ news = <<>>
  /\ served = <<>>
  /\ pipe_pc = "setup"
  /\ fetched = <<>>

\* run_microns_scrape: scrape_with_filter up to the call of get_listing_cards
MicronsPipelineInit ==
  /\ PipeStore({})
  /\ source = "microns"
  /\ \E args \in [ mode : {"filter"}, filters : SampleFilters, max_pages : SamplePageCounts,
                   dry_run : BOOLEAN ] :
       /\ pipe = NewRun(args, {})
       /\ idx_args = [ max_pages |-> args.max_pages ]
  /\ loc = [ all_cards |-> <<>>, page_num |-> 1, seen_slugs |-> {}, slept |-> None ]
  /\ idx_pc = "waiting"
  /\ news = <<>>
  /\ served = <<>>
  /\ pipe_pc = "setup"
  /\ fetched = <<>>

\* base.py lines 135-149: BaseScraper.run(max_listings) of the Microns
\* scraper up to the call of get_listing_urls, which calls
\* get_listing_cards() (microns.py lines 366-367); no run script saves
\* its result
BaseRunInit ==
  /\ PipeStore({})
  /\ source = "microns"
  /\ \E args \in [ mode : {"run"}, max_listings : {None, Some(0), Some(1)} ] :
       pipe = NewRun(args, {})
  /\ idx_args = [ max_pages |-> None ]
  /\ loc = [ all_cards |-> <<>>, page_num |-> 1, seen_slugs |-> {}, slept |-> None ]
  /\ idx_pc = "waiting"
  /\ news = <<>>
  /\ served = <<>>
  /\ pipe_pc = "setup"
  /\ fetched = <<>>

\* run_acquire_scrape: AcquireScraper(...), run_with_filter up to the
\* call of get_listing_cards
AcquirePipelineInit ==
  /\ PipeStore({ StoredRow("acquire", Chars("a1")) })
  /\ source = "acquire"
  /\ \E args \in [ mode : {"filter"}, filter_config : {DefaultFilters}, skip_known : BOOLEAN,
                   max_listings : {None, Some(1)}, max_scrolls : SamplePageCounts,
                   dry_run : {FALSE} ] :
     \E known_ids \in { IF args.skip_known
                        THEN get_known_external_ids(listings, "acquire") ELSE {} } :
       /\ pipe = NewRun(args, known_ids)
       /\ idx_args = [ early_stop |-> IF Truthy(args.max_listings)
                                      THEN Some(Val(args.max_listings) * 2) ELSE None,
                       max_scrolls |-> args.max_scrolls,
                       skip_known |-> args.skip_known,
                       known_ids |-> known_ids ]
  /\ loc = AcquireLocals
  /\ idx_pc = "waiting"
  /\ news = <<>>
  /\ served = <<>>
  /\ pipe_pc = "setup"
  /\ fetched = <<>>

\* base.py lines 92-101: teardown closes the page, the context and the
\* browser and stops playwright
teardown(run) == [run EXCEPT !.browser = "closed"]

\* `finally: await self.teardown()`: the run's variables when the try block
\* is left for phase pc
Leave(run, pc) == IF pc \in {"done", "failed"} THEN teardown(run) ELSE run

\* base.py lines 81-90 and acquire.py lines 217-224: setup() launches the
\* browser and opens a page; the run then enters its try block and calls
\* get_listing_cards
Setup ==
  /\ pipe_pc = "setup"
  /\ pipe' = [pipe EXCEPT !.browser = "open"]
  /\ pipe_pc' = IF pipe.args.mode = "refresh" THEN "login" ELSE "index"
  /\ idx_pc' = IF pipe.args.mode = "refresh" THEN idx_pc
               ELSE IF source = "acquire" THEN "login" ELSE "loop"
  /\ UNCHANGED <<source, idx_args, loc, news, served, fetched>>
  /\ UNCHANGED <<storeVars, filterVars, extractVars>>

\* setup() raises, before the browser is launched or after it (new_context,
\* new_page, or on Acquire get_known_external_ids): `await self.setup()`
\* stands before the try block, so the exception leaves the run at once
SetupFails ==
  /\ pipe_pc = "setup"
  /\ \E launched \in BOOLEAN :
       pipe' = [pipe EXCEPT !.browser = IF launched THEN "open" ELSE "none"]
  /\ pipe_pc' = "failed"
  /\ UNCHANGED fetched
  /\ UNCHANGED <<storeVars, notPipe>>

\* an interrupt (KeyboardInterrupt, CancelledError) arrives inside the try
\* block: no except clause catches it and `finally` runs
Interrupt ==
  /\ pipe_pc \in {"index", "scrape", "check", "login", "refresh"}
  /\ pipe' = teardown(pipe)
  /\ pipe_pc' = "failed"
  /\ idx_pc' = IF idx_pc \in {"login", "loop"} THEN "raised" ELSE idx_pc
  /\ UNCHANGED <<source, idx_args, loc, news, served, fetched>>
  /\ UNCHANGED <<storeVars, filterVars, extractVars>>

\* the cards whose verdict is not among the wanted ones are kept as well
SelectedCards_All(cards, verdicts, wanted) == cards

\* the cards whose verdict is among the wanted ones, in list order
SelectedCards(cards, verdicts, wanted) ==
  LET at == { i \in 1..Len(cards) : verdicts[i] \in wanted }
  IN  [ n \in 1..Cardinality(at) |-> cards[NthSmallest(at, n)] ]

\* the phase a run enters when the cards are sorted
AfterFilter(to_scrape, to_check) ==
  IF Len(to_scrape) > 0 THEN "scrape" ELSE IF Len(to_check) > 0 THEN "check" ELSE "done"

\* get_listing_cards raises: the exception leaves the pipeline through
\* `finally: teardown()`
IndexRaised ==
  /\ pipe_pc = "index"
  /\ idx_pc = "raised"
  /\ pipe_pc' = "failed"
  /\ pipe' = teardown(pipe)
  /\ UNCHANGED fetched
  /\ UNCHANGED <<storeVars, notPipe>>

\* flippa.py lines 992-1017, phase 2: sort the cards
FlippaVerdict(c, run) ==
  IF run.args.skip_known /\ c.external_id \in run.known_ids THEN "known"
  ELSE passes_filter(c, run.args.filters.min_annual_revenue,
                     Some(build_blacklist_pattern(
                            { run.args.filters.category_blacklist[i] :
                                i \in 1..Len(run.args.filters.category_blacklist) })),
                     run.args.us_only, run.args.verified_only)[1]

FlippaCategorize ==
  /\ source = "flippa"
  /\ pipe_pc = "index"
  /\ idx_pc = "returned"
  /\ \E verdicts \in { [ i \in 1..Len(loc.all_cards) |-> FlippaVerdict(loc.all_cards[i], pipe) ] } :
     \E to_scrape \in { SelectedCards(loc.all_cards, verdicts, {"pass"}) } :
     \E to_check \in { SelectedCards(loc.all_cards, verdicts, {"check_detail"}) } :
       /\ pipe' = Leave([pipe EXCEPT !.to_scrape = to_scrape,
                                     !.to_check = to_check,
                                     !.skipped_filter = SelectedCards(loc.all_cards, verdicts, {"fail"}),
                                     !.skipped_known = SelectedCards(loc.all_cards, verdicts, {"known"}),
                                     !.pos = 1],
                        AfterFilter(to_scrape, to_check))
       /\ pipe_pc' = AfterFilter(to_scrape, to_check)
  /\ UNCHANGED fetched
  /\ UNCHANGED <<storeVars, notPipe>>

\* microns.py lines 515-526, phase 2
MicronsVerdict(c, run) ==
  IF microns_passes_filter(c, run.args.filters.min_annual_revenue,
                           run.args.filters.max_asking_price,
                           Some(run.args.filters.category_blacklist))
  THEN "pass" ELSE "fail"

MicronsFilter ==
  /\ source = "microns"
  /\ pipe.args.mode = "filter"
  /\ pipe_pc = "index"
  /\ idx_pc = "returned"
  /\ \E verdicts \in { [ i \in 1..Len(loc.all_cards) |-> MicronsVerdict(loc.all_cards[i], pipe) ] } :
     \E to_scrape \in { SelectedCards(loc.all_cards, verdicts, {"pass"}) } :
       /\ pipe' = Leave([pipe EXCEPT !.to_scrape = to_scrape,
                                     !.skipped_filter = SelectedCards(loc.all_cards, verdicts, {"fail"}),
                                     !.pos = 1],
                        AfterFilter(to_scrape, <<>>))
       /\ pipe_pc' = AfterFilter(to_scrape, <<>>)
  /\ UNCHANGED fetched
  /\ UNCHANGED <<storeVars, notPipe>>

\* base.py lines 146-150: the urls of the cards, cut to max_listings (the
\* cards are kept in place of their urls)
BaseRunUrls ==
  /\ source = "microns"
  /\ pipe.args.mode = "run"
  /\ pipe_pc = "index"
  /\ idx_pc = "returned"
  /\ \E urls \in { IF Truthy(pipe.args.max_listings)
                    THEN SubSeq(loc.all_cards, 1,
                                IF Val(pipe.args.max_listings) < Len(loc.all_cards)
                                THEN Val(pipe.args.max_listings) ELSE Len(loc.all_cards))
                    ELSE loc.all_cards } :
       /\ pipe' = Leave([pipe EXCEPT !.to_scrape = urls, !.pos = 1], AfterFilter(urls, <<>>))
       /\ pipe_pc' = AfterFilter(urls, <<>>)
  /\ UNCHANGED fetched
  /\ UNCHANGED <<storeVars, notPipe>>

\* acquire.py lines 837-861, phase 2 and the max_listings cut
AcquireVerdict(c, run) ==
  IF acquire_passes_filter(c, run.args.filter_config.category_blacklist)[1]
  THEN "pass" ELSE "fail"

AcquireFilter ==
  /\ source = "acquire"
  /\ pipe_pc = "index"
  /\ idx_pc = "returned"
  /\ \E verdicts \in { [ i \in 1..Len(loc.cards) |-> AcquireVerdict(loc.cards[i], pipe) ] } :
     \E passing \in { SelectedCards(loc.cards, verdicts, {"pass"}) } :
     \E to_scrape \in { IF Truthy(pipe.args.max_listings)
                             /\ Len(passing) > Val(pipe.args.max_listings)
                        THEN SubSeq(passing, 1, Val(pipe.args.max_listings))
                        ELSE passing } :
       /\ pipe' = Leave([pipe EXCEPT !.to_scrape = to_scrape,
                                     !.skipped_filter = SelectedCards(loc.cards, verdicts, {"fail"}),
                                     !.pos = 1],
                        AfterFilter(to_scrape, <<>>))
       /\ pipe_pc' = AfterFilter(to_scrape, <<>>)
  /\ UNCHANGED fetched
  /\ UNCHANGED <<storeVars, notPipe>>

\* the detail loops with phase 4 left out
AfterDetail_NoCheck(pc, pos, to_scrape, to_check) ==
  IF pc = "scrape" /\ pos < Len(to_scrape) THEN <<"scrape", pos + 1>> ELSE <<"done", 0>>

\* the phase and position after the card at pos is dealt with
AfterDetail(pc, pos, to_scrape, to_check) ==
  IF pc = "scrape"
  THEN IF pos < Len(to_scrape) THEN <<"scrape", pos + 1>>
       ELSE IF Len(to_check) > 0 THEN <<"check", 1>> ELSE <<"done", 0>>
  ELSE IF pos < Len(to_check) THEN <<"check", pos + 1>> ELSE <<"done", 0>>

\* the run moves on from the card at pipe.pos, with the changes `after`
\* made to its variables
MoveOn(after) ==
  \E next \in { AfterDetail(pipe_pc, pipe.pos, pipe.to_scrape, pipe.to_check) } :
    /\ pipe' = Leave([after EXCEPT !.pos = next[2], !.retry_count = 0], next[1])
    /\ pipe_pc' = next[1]

\* the exceptions a detail scrape may raise: type(exc).__name__ and str(exc)
SampleExceptions ==
  { [ type |-> "TimeoutError", message |-> "Timeout 30000ms exceeded." ],
    [ type |-> "Error", message |-> "net::ERR_CONNECTION_RESET" ] }

\* base.py lines 27-35: ScrapeError.from_exception (the traceback text and
\* the timestamp are left out)
from_exception(url, exc) ==
  [ url |-> url, error_type |-> exc.type, error_message |-> exc.message ]

\* the except clause of the detail loops with the error dropped
OnDetailError_Dropped(run, url, exc) == run

\* the except clause of the detail loops: base.py line 158, flippa.py
\* lines 1042-1044 and 1070-1072, microns.py line 535, acquire.py lines
\* 874-876
OnDetailError(run, url, exc) ==
  [run EXCEPT !.errors = Append(@, from_exception(url, exc))]

\* scrape_listing(url) raises exc to the detail loop, which goes on with
\* the next card
DetailRaises(run, url, exc) ==
  MoveOn(OnDetailError([run EXCEPT !.raised = Append(@, <<url, exc>>)], url, exc))

\* line 777: retry_delay of scrape_listing(url, card_data, retry_count)
FlippaDetailRetryDelay(retry_count) == BASE_RETRY * (2 ^ retry_count)

\* flippa.py lines 772-781: when the detail page fails to load it is
\* requested again until MAX_DETAIL_RETRIES retries are used, then the
\* exception is raised to the caller; an exception after the load is
\* raised at once
FlippaDetailFailure(c) ==
  /\ fetched' = Append(fetched, c.external_id)
  /\ \E exc \in SampleExceptions, loaded \in BOOLEAN :
       IF ~loaded /\ pipe.retry_count < MAX_DETAIL_RETRIES
       THEN /\ pipe' = [Navigated(pipe, <<>>, << FlippaDetailRetryDelay(pipe.retry_count) >>)
                          EXCEPT !.retry_count = @ + 1]
            /\ UNCHANGED pipe_pc
       ELSE DetailRaises(Navigated(pipe, <<>>, << BETWEEN_DETAILS >>), c.url, exc)

\* flippa.py lines 1032-1047, phase 3: the detail page of a passing card
FlippaScrapeLoads ==
  /\ source = "flippa"
  /\ pipe_pc = "scrape"
  /\ \E c \in { pipe.to_scrape[pipe.pos] }, found \in SampleFlippaPages :
     \E run \in { Navigated(pipe, <<>>, << BETWEEN_DETAILS >>) } :
       /\ fetched' = Append(fetched, c.external_id)
       /\ IF FlippaAskingPrices[found.price_line].raises
          THEN DetailRaises(run, c.url, OverflowError)
          ELSE MoveOn([Scraped(run, c, found, FlippaListing(c, found))
                         EXCEPT !.listings = Append(@, FlippaListing(c, found))])
  /\ UNCHANGED <<storeVars, notPipe>>

FlippaScrapeFails ==
  /\ source = "flippa"
  /\ pipe_pc = "scrape"
  /\ FlippaDetailFailure(pipe.to_scrape[pipe.pos])
  /\ UNCHANGED <<storeVars, notPipe>>

\* flippa.py lines 1053-1077, phase 4: the detail page of a card whose
\* country is unknown
FlippaCheckLoads ==
  /\ source = "flippa"
  /\ pipe_pc = "check"
  /\ \E c \in { pipe.to_check[pipe.pos] }, found \in SampleFlippaPages :
     \E listing \in { FlippaListing(c, found) } :
     \E run \in { Navigated(pipe, <<>>, << BETWEEN_DETAILS >>) } :
       /\ fetched' = Append(fetched, c.external_id)
       /\ IF FlippaAskingPrices[found.price_line].raises
          THEN DetailRaises(run, c.url, OverflowError)
          ELSE IF pipe.args.us_only /\ ~is_us_country(listing.country)
          THEN MoveOn([Scraped(run, c, found, listing)
                         EXCEPT !.skipped_filter = Append(@, c)])
          ELSE MoveOn([Scraped(run, c, found, listing)
                         EXCEPT !.listings = Append(@, listing)])
  /\ UNCHANGED <<storeVars, notPipe>>

FlippaCheckFails ==
  /\ source = "flippa"
  /\ pipe_pc = "check"
  /\ FlippaDetailFailure(pipe.to_check[pipe.pos])
  /\ UNCHANGED <<storeVars, notPipe>>

\* microns.py lines 530-537, phase 3, and base.py lines 151-158
MicronsScrapeLoads ==
  /\ source = "microns"
  /\ pipe_pc = "scrape"
  /\ \E c \in { pipe.to_scrape[pipe.pos] } :
       /\ fetched' = Append(fetched, c.slug)
       /\ MoveOn([Navigated(pipe, <<>>, << request_delay_seconds >>)
                   EXCEPT !.listings = Append(@, MicronsDetail(c))])
  /\ UNCHANGED <<storeVars, notPipe>>

MicronsScrapeFails ==
  /\ source = "microns"
  /\ pipe_pc = "scrape"
  /\ \E c \in { pipe.to_scrape[pipe.pos] }, exc \in SampleExceptions :
       /\ fetched' = Append(fetched, c.slug)
       /\ DetailRaises(Navigated(pipe, <<>>, IF pipe.args.mode = "run" THEN <<>>
                                              ELSE << request_delay_seconds >>),
                       c.url, exc)
  /\ UNCHANGED <<storeVars, notPipe>>

\* acquire.py lines 867-878, phase 3
AcquireScrapeLoads ==
  /\ source = "acquire"
  /\ pipe_pc = "scrape"
  /\ \E c \in { pipe.to_scrape[pipe.pos] }, found \in SampleAcquirePages :
     \E listing \in { AcquireDetail(c, found) } :
       /\ fetched' = Append(fetched, c.listing_id)
       /\ MoveOn([Scraped(Navigated(pipe, << BETWEEN_LISTINGS_MIN >>, << AFTER_CLICK_MIN >>),
                          c, found, listing)
                   EXCEPT !.listings = Append(@, listing)])
  /\ UNCHANGED <<storeVars, notPipe>>

AcquireScrapeFails ==
  /\ source = "acquire"
  /\ pipe_pc = "scrape"
  /\ \E c \in { pipe.to_scrape[pipe.pos] }, exc \in SampleExceptions :
       /\ fetched' = Append(fetched, c.listing_id)
       /\ DetailRaises(Navigated(pipe, << BETWEEN_LISTINGS_MIN >>, <<>>), c.url, exc)
  /\ UNCHANGED <<storeVars, notPipe>>

\* Acquire refresh mode: refresh_listings, acquire.py lines 885-960

\* RateLimiter(base_delay, max_delay, backoff_factor,
\* max_consecutive_failures) as refresh_listings constructs it, lines
\* 926-931; delays are in tenths of a second
REFRESH_MAX_DELAY == 600
REFRESH_BACKOFF_FACTOR == 2
REFRESH_MAX_CONSECUTIVE_FAILURES == 5

RateLimiter(base_delay, max_delay, backoff_factor, max_consecutive_failures) ==
  [ base_delay |-> base_delay, max_delay |-> max_delay, backoff_factor |-> backoff_factor,
    max_consecutive_failures |-> max_consecutive_failures,
    consecutive_failures |-> 0, current_delay |-> base_delay ]

\* record_success(): the failure count and the delay are reset
record_success(rl) ==
  [rl EXCEPT !.consecutive_failures = 0, !.current_delay = rl.base_delay]

\* record_failure() with the failure count left as it was
record_failure_NoCount(rl) ==
  << [rl EXCEPT !.current_delay = IF @ * rl.backoff_factor > rl.max_delay THEN rl.max_delay
                                  ELSE @ * rl.backoff_factor],
     TRUE >>

\* record_failure(): the failure count grows and the delay is multiplied
\* by the backoff factor up to max_delay; <<rate limiter, go on>>, go on
\* being False once max_consecutive_failures is reached
record_failure(rl) ==
  << [rl EXCEPT !.consecutive_failures = @ + 1,
                !.current_delay = IF @ * rl.backoff_factor > rl.max_delay THEN rl.max_delay
                                  ELSE @ * rl.backoff_factor],
     rl.consecutive_failures + 1 < rl.max_consecutive_failures >>

\* the rows get_listings_to_refresh may return: dicts with a url, one
\* without
RefreshRow(id) == [ url |-> Some(Chars("/startup/x/") \o Chars(id)) ]

SampleRefreshLists ==
  { <<>>,
    << RefreshRow("r1"), [ url |-> None ], RefreshRow("r2"), RefreshRow("r3"), RefreshRow("r4"),
       RefreshRow("r5"), RefreshRow("r6"), RefreshRow("r7") >> }

\* run_acquire_scrape --refresh: refresh_listings up to setup()
RefreshInit ==
  /\ PipeStore({})
  /\ source = "acquire"
  /\ \E args \in [ mode : {"refresh"}, max_listings : {None, Some(3)} ] :
       pipe = NewRun(args, {})
  /\ idx_args = [ early_stop |-> None, max_scrolls |-> None, skip_known |-> FALSE,
                  known_ids |-> {} ]
  /\ loc = AcquireLocals
  /\ idx_pc = "waiting"
  /\ news = <<>>
  /\ served = <<>>
  /\ pipe_pc = "setup"
  /\ fetched = <<>>

\* lines 908-910: login() raises or returns False, and refresh_listings
\* raises through `finally`
RefreshLoginFails ==
  /\ pipe.args.mode = "refresh"
  /\ pipe_pc = "login"
  /\ ~loc.logged_in
  /\ \E outcome \in AuthFailures : loc' = login(loc, outcome)
  /\ pipe' = teardown(pipe)
  /\ pipe_pc' = "failed"
  /\ UNCHANGED <<source, idx_args, idx_pc, news, served, fetched>>
  /\ UNCHANGED <<storeVars, filterVars, extractVars>>

\* lines 908-933: the login succeeds, the stale listings are read and cut
\* to max_listings, and the rate limiter is made
RefreshStart ==
  /\ pipe.args.mode = "refresh"
  /\ pipe_pc = "login"
  /\ loc' = login(loc, "ok")
  /\ \E stale \in SampleRefreshLists :
     \E rows \in { IF Truthy(pipe.args.max_listings)
                         /\ Len(stale) > Val(pipe.args.max_listings)
                    THEN SubSeq(stale, 1, Val(pipe.args.max_listings)) ELSE stale } :
     \E pc \in { IF Len(rows) = 0 THEN "done" ELSE "refresh" } :
       /\ pipe' = Leave([pipe EXCEPT !.to_refresh = rows, !.pos = 1,
                                     !.rate_limiter =
                                        Some(RateLimiter(BETWEEN_LISTINGS_MIN, REFRESH_MAX_DELAY,
                                                         REFRESH_BACKOFF_FACTOR,
                                                         REFRESH_MAX_CONSECUTIVE_FAILURES))],
                        pc)
       /\ pipe_pc' = pc
  /\ UNCHANGED <<source, idx_args, idx_pc, news, served, fetched>>
  /\ UNCHANGED <<storeVars, filterVars, extractVars>>

\* the refresh loop goes on with the row after pos, or is left
RefreshNext(after, go_on) ==
  \E pc \in { IF go_on /\ pipe.pos < Len(pipe.to_refresh) THEN "refresh" ELSE "done" } :
    /\ pipe' = Leave([after EXCEPT !.pos = IF pc = "refresh" THEN @ + 1 ELSE @], pc)
    /\ pipe_pc' = pc

\* await rate_limiter.wait(): the delay waited is recorded
RateLimiterWait(run) == [run EXCEPT !.waits = Append(@, Val(run.rate_limiter).current_delay)]

\* lines 937-939: a row without url is passed over
RefreshSkipsRow ==
  /\ pipe_pc = "refresh"
  /\ ~(pipe.to_refresh[pipe.pos].url # None /\ Len(Val(pipe.to_refresh[pipe.pos].url)) > 0)
  /\ RefreshNext(pipe, TRUE)
  /\ UNCHANGED fetched
  /\ UNCHANGED <<storeVars, notPipe>>

\* lines 944-947 and 956: the listing is scraped again
RefreshLoads ==
  /\ pipe_pc = "refresh"
  /\ pipe.to_refresh[pipe.pos].url # None
  /\ \E url \in { Val(pipe.to_refresh[pipe.pos].url) } :
     \E id \in { extract_listing_id_from_url(url) } :
       /\ id # None
       /\ fetched' = Append(fetched, Val(id))
       /\ RefreshNext(RateLimiterWait(
                        [pipe EXCEPT !.listings = Append(@, DetailListing("acquire", Val(id),
                                                                         url, None)),
                                     !.rate_limiter = Some(record_success(Val(@)))]),
                      TRUE)
  /\ UNCHANGED <<storeVars, notPipe>>

\* lines 948-956: the scrape raises; the error is recorded and the pass
\* goes on after a wait, or is aborted
RefreshFails ==
  /\ pipe_pc = "refresh"
  /\ pipe.to_refresh[pipe.pos].url # None
  /\ \E url \in { Val(pipe.to_refresh[pipe.pos].url) } :
     \E exc \in { [ type |-> "TimeoutError", message |-> "Timeout 30000ms exceeded." ] } :
     \E failure \in { record_failure(Val(pipe.rate_limiter)) } :
     \E after \in { [OnDetailError([pipe EXCEPT !.raised = Append(@, <<url, exc>>)], url, exc)
                        EXCEPT !.rate_limiter = Some(failure[1])] } :
     \E id \in { extract_listing_id_from_url(url) } :
       /\ id # None
       /\ fetched' = Append(fetched, Val(id))
       /\ RefreshNext(IF failure[2] THEN RateLimiterWait(after) ELSE after, failure[2])
  /\ UNCHANGED <<storeVars, notPipe>>

\* the run scripts: `if not dry_run and result.listings:` save each listing
PersistListing ==
  /\ pipe_pc = "done"
  /\ pipe.args.mode = "filter"
  /\ ~pipe.args.dry_run
  /\ pipe.saved < Len(pipe.listings)
  /\ save_listing_from_model(pipe.listings[pipe.saved + 1])
  /\ pipe' = IF Val(last_call').is_new = Some(TRUE)
             THEN [pipe EXCEPT !.saved = @ + 1, !.stats.new = @ + 1]
             ELSE [pipe EXCEPT !.saved = @ + 1, !.stats.updated = @ + 1]
  /\ UNCHANGED <<pipe_pc, fetched>>
  /\ UNCHANGED notPipe

\* save_listing_from_model raises and stores nothing: run_flippa_scrape
\* (lines 236-239) and run_acquire_scrape (lines 204-207) count the failure
\* and go on; run_microns_scrape (lines 83-91) has no except clause, the
\* exception leaves run_scrape
PersistFails ==
  /\ pipe_pc = "done"
  /\ pipe.args.mode = "filter"
  /\ ~pipe.args.dry_run
  /\ pipe.saved < Len(pipe.listings)
  /\ IF source = "microns"
     THEN /\ pipe' = [pipe EXCEPT !.save_failures = @ + 1]
          /\ pipe_pc' = "crashed"
     ELSE /\ pipe' = [pipe EXCEPT !.save_failures = @ + 1, !.saved = @ + 1,
                                  !.stats.save_errors = @ + 1]
          /\ UNCHANGED pipe_pc
  /\ UNCHANGED fetched
  /\ UNCHANGED <<storeVars, notPipe>>

PipelineNext ==
  \/ IndexNext
  \/ Setup
  \/ SetupFails
  \/ Interrupt
  \/ IndexRaised
  \/ FlippaCategorize
  \/ FlippaScrapeLoads
  \/ FlippaScrapeFails
  \/ FlippaCheckLoads
  \/ FlippaCheckFails
  \/ MicronsFilter
  \/ BaseRunUrls
  \/ MicronsScrapeLoads
  \/ MicronsScrapeFails
  \/ AcquireFilter
  \/ AcquireScrapeLoads
  \/ AcquireScrapeFails
  \/ RefreshLoginFails
  \/ RefreshStart
  \/ RefreshSkipsRow
  \/ RefreshLoads
  \/ RefreshFails
  \/ PersistListing
  \/ PersistFails

-----------------------------------------------------------------------------
(* Specifications *)

-----------------------------------------------------------------------------
(* The money parsers on one token: parse_money (acquire.py),               *)
(* parse_price_with_currency (flippa.py), MicronsScraper._parse_price       *)

SamplePrefixes == { "", "$", "AUD $", "£" }
LargeNumbers == { "910", "54,200" }
SmallNumbers ==
  { "1.2", "19.99", "1.999", "0.29", "2.3", ".5", "5.", "1.2.3", ".", "0", "", ".01" }
TinyNumbers == { "0", ".01" }
PlainSuffixes == { "", " p/mo", "x" }

\* number and suffix of the tokens: the amounts stay below 2^31 cents
SampleAmounts ==
  (LargeNumbers \X PlainSuffixes)
    \cup ({ "910" } \X { "k", "K" })
    \cup (SmallNumbers \X (PlainSuffixes \cup { "k", "K", "m", "M" }))
    \cup (TinyNumbers \X { "b", "B" })

\* the arguments: None, and strings
SampleTokens ==
  { None, Some(HugeToken), Some(<<"$">> \o HugeToken) }
    \cup { Some(Chars(prefix) \o Chars(amount[1]) \o Chars(amount[2])) :
             prefix \in SamplePrefixes, amount \in SampleAmounts }

MoneyInit ==
  /\ token \in SampleTokens
  /\ parse_result = None
  /\ page = <<>>
  /\ extracted = None

\* what a call did: it raised, or it returned a value
Raised(parser, exception) == [ parser |-> parser, raised |-> Some(exception), value |-> None ]
Returned(parser, value) == [ parser |-> parser, raised |-> None, value |-> value ]

\* acquire.py lines 80-110: parse_money(token); `not text` holds for None
\* and for ""
ParseMoney ==
  /\ parse_result = None
  /\ parse_result' =
       Some(IF token = None THEN Returned("parse_money", None)
            ELSE IF parse_money_raises(Val(token)) THEN Raised("parse_money", "OverflowError")
            ELSE Returned("parse_money", parse_money(Val(token))))
  /\ UNCHANGED <<page, extracted, token>>
  /\ UNCHANGED notExtract

\* flippa.py lines 132-193: parse_price_with_currency(token)[0]
ParsePriceWithCurrency ==
  /\ parse_result = None
  /\ parse_result' =
       Some(IF token = None THEN Returned("parse_price_with_currency", None)
            ELSE IF parse_price_with_currency_raises(Val(token))
            THEN Raised("parse_price_with_currency", "OverflowError")
            ELSE Returned("parse_price_with_currency", parse_price_with_currency(Val(token))[1]))
  /\ UNCHANGED <<page, extracted, token>>
  /\ UNCHANGED notExtract

\* microns.py lines 113-124: MicronsScraper._parse_price(token)
ParsePrice ==
  /\ parse_result = None
  /\ parse_result' =
       Some(IF token = None THEN Returned("_parse_price", None)
            ELSE IF parse_price_raises(Val(token)) THEN Raised("_parse_price", "OverflowError")
            ELSE Returned("_parse_price", parse_price(Val(token))))
  /\ UNCHANGED <<page, extracted, token>>
  /\ UNCHANGED notExtract

MoneyNext == ParseMoney \/ ParsePriceWithCurrency \/ ParsePrice

-----------------------------------------------------------------------------
(* The duration parser on one token: FlippaScraper._parse_site_age, and the *)
(* launch year scrape_listing derives from it                               *)

SampleYearParts == { "", "0 years", "1 year", "12 Years", "2years" }
SampleMonthParts == { "", "0 months", "3 months", "6 Months", "11  month" }
SampleSeparators == { "", " ", ", " }

\* the arguments: None, a text without a duration, and durations
SampleAges ==
  { None, Some(Chars("no age given")) }
    \cup { Some(Chars(years) \o Chars(separator) \o Chars(months)) :
             years \in SampleYearParts, separator \in SampleSeparators,
             months \in SampleMonthParts }

\* datetime.now().year
SampleYears == { 2025, 2026 }

AgeInit ==
  /\ token \in SampleAges
  /\ parse_result = None
  /\ page = <<>>
  /\ extracted = None

\* flippa.py lines 883-886: `if site_age_months:` the launch year is the
\* current year less the whole years of the age
launched_year_of(site_age_months, now_year) ==
  IF Truthy(site_age_months) THEN Some(now_year - (Val(site_age_months) \div 12)) ELSE None

\* flippa.py lines 397-416 and 883-886: _parse_site_age(token) and the
\* launch year
ParseSiteAge ==
  /\ parse_result = None
  /\ \E now_year \in SampleYears :
     \E months \in { IF token = None THEN None ELSE parse_site_age(Val(token)) } :
       parse_result' = Some([ parser |-> "_parse_site_age", raised |-> None, value |-> months,
                              now_year |-> now_year,
                              launched_year |-> launched_year_of(months, now_year) ])
  /\ UNCHANGED <<page, extracted, token>>
  /\ UNCHANGED notExtract


InitFilter == FilterInit /\ StoreIdle /\ ExtractIdle /\ IndexIdle /\ PipeIdle
SpecFilter == InitFilter /\ [][Evaluate]_vars

InitStore == StoreInit /\ FilterIdle /\ ExtractIdle /\ IndexIdle /\ PipeIdle
SpecStore == InitStore /\ [][StoreNext]_vars

InitExtract == ExtractInit /\ FilterIdle /\ StoreIdle /\ IndexIdle /\ PipeIdle
SpecExtract == InitExtract /\ [][ExtractCardsFromPage]_vars

InitMoney == MoneyInit /\ FilterIdle /\ StoreIdle /\ IndexIdle /\ PipeIdle
SpecMoney == InitMoney /\ [][MoneyNext]_vars

InitAge == AgeInit /\ FilterIdle /\ StoreIdle /\ IndexIdle /\ PipeIdle
SpecAge == InitAge /\ [][ParseSiteAge]_vars

InitIndex ==
  /\ FlippaIndexInit \/ MicronsIndexInit \/ AcquireIndexInit
  /\ FilterIdle /\ StoreIdle /\ ExtractIdle /\ PipeIdle
SpecIndex == InitIndex /\ [][IndexNext]_vars

\* the index loops in runs of any length; every iteration of a loop comes
\* to its end (each page operation returns or times out)
LoopNext ==
  \/ FlippaLoadFails
  \/ FlippaRateLimited
  \/ FlippaNoSelector
  \/ FlippaNoContent
  \/ FlippaPage
  \/ MicronsGotoRaises
  \/ MicronsNoCards
  \/ MicronsPageOn
  \/ AcquireLoginFails
  \/ AcquireStartFails
  \/ AcquireStart
  \/ AcquireLoopExit
  \/ AcquireView
\* every loop step but AcquireView
LoopStep ==
  \/ FlippaLoadFails
  \/ FlippaRateLimited
  \/ FlippaNoSelector
  \/ FlippaNoContent
  \/ FlippaPage
  \/ MicronsGotoRaises
  \/ MicronsNoCards
  \/ MicronsPageOn
  \/ AcquireLoginFails
  \/ AcquireStartFails
  \/ AcquireStart
  \/ AcquireLoopExit
\* weak fairness of AcquireView, whose enabling condition is its guard
\* AcquireLooping (every view changes served)
AcquireViewFair == []<>(~AcquireLooping) \/ []<><<AcquireView>>_vars
SpecLoops == InitIndex /\ [][LoopNext]_vars /\ WF_vars(LoopStep) /\ AcquireViewFair

\* get_listing_cards(max_scrolls, early_stop) of Acquire without known ids
AcquireScrollInit ==
  /\ source = "acquire"
  /\ idx_args \in { a \in AcquireIndexArgs :
                      ~a.skip_known /\ a.known_ids = {} /\ a.max_scrolls # None }
  /\ loc = AcquireLocals
  /\ idx_pc = "login"
  /\ news = <<>>
  /\ served = <<>>

InitScroll == AcquireScrollInit /\ FilterIdle /\ StoreIdle /\ ExtractIdle /\ PipeIdle
SpecScroll == InitScroll /\ [][ScrollNext]_vars

InitPaging == FlippaPagingInit /\ FilterIdle /\ StoreIdle /\ ExtractIdle /\ PipeIdle
SpecPaging == InitPaging /\ [][PagingNext]_vars

InitPipeline ==
  /\ \/ FlippaPipelineInit
     \/ MicronsPipelineInit
     \/ AcquirePipelineInit
     \/ BaseRunInit
     \/ RefreshInit
  /\ FilterIdle /\ ExtractIdle
SpecPipeline == InitPipeline /\ [][PipelineNext]_vars

-----------------------------------------------------------------------------
(* The listing store: properties *)

\* the key of the last save call, and the row stored under a key
LastKey == <<Val(last_call).listing.source_id, Val(last_call).listing.external_id>>
RowOf(rows, k) == get_listing_by_external_id(rows, k[1], k[2])

\* the stored form of a posted_at and of a raw_data value
StoredPostedAt(v) == IF v = None THEN None ELSE Some(IsoFormat(Val(v)))
StoredRawData(v) == IF v = None THEN None ELSE Some(JsonDumps(Val(v)))

OneRowPerKey ==
  \A k \in StoreKeys :
    Cardinality({ r \in listings : <<r.source_id, r.external_id>> = k })
      = IF upserted[k] > 0 THEN 1 ELSE 0

\* row r carries the values of call argument l, for the fields l has
CarriesValues(r, l) ==
  /\ r.source_id = l.source_id
  /\ r.external_id = l.external_id
  /\ r.url = l.url
  /\ r.title = l.title
  /\ r.category = l.category
  /\ r.asking_price = l.asking_price
  /\ r.annual_revenue = l.annual_revenue
  /\ r.customers = l.customers
  /\ r.launched_year = l.launched_year
  /\ r.posted_at = StoredPostedAt(l.posted_at)
  /\ r.description = l.description
  /\ r.raw_data = StoredRawData(l.raw_data)
  /\ "location" \in DOMAIN l => r.location = l.location
  /\ "country" \in DOMAIN l => r.country = l.country

\* C6: after any sequence of upserts the store holds exactly one row per
\* distinct (source_id, external_id), the row carries the values of the last
\* call for its key, and save_listing_from_model reports is_new = True on the
\* first upsert of a key and False on every later one.
C6_OneRowLastValues ==
  /\ OneRowPerKey
  /\ last_call # None =>
       /\ RowOf(listings, LastKey) # None
       /\ CarriesValues(Val(RowOf(listings, LastKey)), Val(last_call).listing)
       /\ Val(last_call).op = "save_listing_from_model" =>
            Val(last_call).is_new = Some(upserted[LastKey] = 1)

\* C7 as stated: first_seen_at is never changed by a later upsert of the
\* key, last_seen_at and updated_at are refreshed by every upsert, and
\* last_seen_at strictly increases from one upsert of the key to the next.
C7_LastSeenStrictlyIncreases ==
  [][ \A k \in StoreKeys :
        RowOf(listings, k) # None =>
          /\ RowOf(listings', k) # None
          /\ Val(RowOf(listings', k)).first_seen_at = Val(RowOf(listings, k)).first_seen_at
          /\ upserted'[k] # upserted[k] =>
               /\ Val(RowOf(listings', k)).updated_at = clock'
               /\ Val(RowOf(listings', k)).last_seen_at = clock'
               /\ Val(RowOf(listings', k)).last_seen_at > Val(RowOf(listings, k)).last_seen_at
    ]_vars

\* C7: first_seen_at is the time of the first insert and no later upsert of
\* the key changes it; every upsert sets last_seen_at and updated_at to the
\* current timestamp, so last_seen_at never decreases from one upsert of the
\* key to the next and increases exactly when the clock has advanced past it.
C7_SeenTimestamps ==
  [][ \A k \in StoreKeys :
        /\ (RowOf(listings, k) = None /\ RowOf(listings', k) # None) =>
             Val(RowOf(listings', k)).first_seen_at = clock'
        /\ RowOf(listings, k) # None =>
             /\ RowOf(listings', k) # None
             /\ Val(RowOf(listings', k)).first_seen_at
                  = Val(RowOf(listings, k)).first_seen_at
             /\ upserted'[k] # upserted[k] =>
                  /\ Val(RowOf(listings', k)).updated_at = clock'
                  /\ Val(RowOf(listings', k)).last_seen_at = clock'
                  /\ Val(RowOf(listings', k)).last_seen_at
                       >= Val(RowOf(listings, k)).last_seen_at
                  /\ (Val(RowOf(listings', k)).last_seen_at
                        > Val(RowOf(listings, k)).last_seen_at)
                       <=> (clock' > Val(RowOf(listings, k)).last_seen_at)
    ]_vars

\* a key upserted again in a later second: refreshed, first_seen_at kept
C7_Witness ==
  \E r \in listings :
    /\ upserted[<<r.source_id, r.external_id>>] >= 2
    /\ r.first_seen_at < r.last_seen_at
    /\ r.updated_at = r.last_seen_at

\* C8: after save_listing_from_model(L) the stored row for
\* (L.source_id, L.external_id) carries L's value for every ListingCreate
\* field, including location, country and raw_data (also an empty mapping).
C8_RowCarriesListingCreate ==
  (last_call # None /\ Val(last_call).op = "save_listing_from_model") =>
    LET L == Val(last_call).listing
        row == RowOf(listings, <<L.source_id, L.external_id>>)
    IN  /\ row # None
        /\ \A f \in DOMAIN L \ {"posted_at", "raw_data"} : Val(row)[f] = L[f]
        /\ Val(row).posted_at = StoredPostedAt(L.posted_at)
        /\ Val(row).raw_data = StoredRawData(L.raw_data)

\* C9: the id returned by an upsert identifies the stored row of the key
\* just saved, on first insert and on every later update, and a row's
\* surrogate id never changes after its first insert.
C9_ReturnedIdIdentifiesRow ==
  [][ /\ last_call' # None =>
           /\ get_listing(listings', Val(last_call').listing_id) # None
           /\ LET row == Val(get_listing(listings', Val(last_call').listing_id))
              IN  <<row.source_id, row.external_id>>
                    = <<Val(last_call').listing.source_id,
                        Val(last_call').listing.external_id>>
      /\ \A k \in StoreKeys :
           RowOf(listings, k) # None =>
             /\ RowOf(listings', k) # None
             /\ Val(RowOf(listings', k)).id = Val(RowOf(listings, k)).id
    ]_vars

-----------------------------------------------------------------------------
(* The Flippa card extractor: properties *)

\* the listing id of a card element: <<>> when it has no href or the href
\* does not end in a numeric id
ElementId(b) ==
  IF b.href = None \/ Len(Val(b.href)) = 0 THEN None
  ELSE LET href == Val(b.href)
           id == extract_id_from_url(IF href[1] = "/" THEN flippa_base_url \o href ELSE href)
       IN  IF IsDigitStr(id) THEN Some(id) ELSE None

\* an accepted block: it resolves to a listing id, can be read and has
\* the minimum number of lines
Accepted(b) ==
  /\ ElementId(b) # None
  /\ ~b.raises
  /\ Len(StrippedLines(b.text)) >= MIN_CARD_LINES

\* the positions on the page of the accepted blocks of a listing id
AcceptedOf(id) == { i \in 1..Len(page) : Accepted(page[i]) /\ ElementId(page[i]) = Some(id) }

PageIds == { Val(ElementId(page[i])) : i \in { j \in 1..Len(page) : Accepted(page[j]) } }

\* the labels the extractor reads values from
LabelTokens == { Str_type, Str_industry, Str_net_profit, Str_monthly_profit, Str_site_age }

HasMarker(b) == InText(b.text, Str_Confidential) \/ InText(b.text, Str_Sign_NDA)

\* a data block: one of its lines is a label and a value line follows it
IsDataBlock(b) ==
  LET lines == StrippedLines(b.text)
  IN  \E i \in 1..(Len(lines) - 1) : Strip(Lower(lines[i])) \in LabelTokens

\* a teaser block: the confidential marker and no label
IsTeaserBlock(b) == HasMarker(b) /\ ~IsDataBlock(b)

\* what a block yields when it is the only block of its listing
Alone(b) == MergeBlock(NewCardData(<<>>, <<>>), b.text)

\* the labelled fields of the card are those of the first data block of
\* the listing that carries them
FieldsFromDataBlocks(c, id) ==
  \A f \in {"category", "industry", "profit_monthly_cents", "site_age_months"} :
    LET carriers == { i \in AcceptedOf(id) : IsDataBlock(page[i]) /\ Alone(page[i])[f] # None }
    IN  carriers # {} =>
          c[f] = Alone(page[CHOOSE i \in carriers : \A j \in carriers : i <= j])[f]

\* C5: when the accepted blocks of one listing id on a page include a teaser
\* block and at least one data block, in any order and with any number of
\* duplicates, the extractor yields exactly one card for the id, with
\* is_confidential False and its fields populated from the data block; and a
\* card is confidential only if a marker was seen and no block of its id
\* carried data fields.
C5_DataBlockClearsConfidential ==
  extracted # None =>
    LET cards == Val(extracted)[1]
    IN  /\ \A id \in PageIds :
             ( /\ \E i \in AcceptedOf(id) : IsTeaserBlock(page[i])
               /\ \E i \in AcceptedOf(id) : IsDataBlock(page[i]) ) =>
               /\ Cardinality({ k \in 1..Len(cards) : cards[k].external_id = id }) = 1
               /\ \A k \in 1..Len(cards) :
                    cards[k].external_id = id =>
                      /\ ~cards[k].is_confidential
                      /\ FieldsFromDataBlocks(cards[k], id)
        /\ \A k \in 1..Len(cards) :
             cards[k].is_confidential =>
               /\ \E i \in AcceptedOf(cards[k].external_id) : HasMarker(page[i])
               /\ ~\E i \in AcceptedOf(cards[k].external_id) : IsDataBlock(page[i])

-----------------------------------------------------------------------------
(* The index loops: properties *)

\* the listing ids on an index page, block by block: [id, ok], ok saying
\* that the block is one the source turns into a card
FlippaEntries(blocks) ==
  LET kept == { i \in 1..Len(blocks) : Accepted(blocks[i]) }
  IN  [ n \in 1..Cardinality(kept) |->
          [ id |-> Val(ElementId(blocks[NthSmallest(kept, n)])), ok |-> TRUE ] ]

MicronsEntries(blocks) ==
  LET kept == { i \in 1..Len(blocks) :
                  blocks[i].has_link /\ blocks[i].href # None /\ Len(Val(blocks[i].href)) > 0 }
  IN  [ n \in 1..Cardinality(kept) |->
          [ id |-> LastSegment(Val(blocks[NthSmallest(kept, n)].href)), ok |-> TRUE ] ]

AcquireEntries(links) ==
  LET kept == { i \in 1..Len(links) :
                  /\ links[i].href # None
                  /\ Contains(Val(links[i].href), Str_startup)
                  /\ extract_listing_id_from_url(Val(links[i].href)) # None }
  IN  [ n \in 1..Cardinality(kept) |->
          [ id |-> Val(extract_listing_id_from_url(Val(links[NthSmallest(kept, n)].href))),
            raises |-> links[NthSmallest(kept, n)].raises ] ]

FlippaIndexEntries == [ k \in 1..Len(FlippaIndexPages) |-> FlippaEntries(FlippaIndexPages[k]) ]
MicronsIndexEntries == [ k \in 1..Len(MicronsIndexPages) |-> MicronsEntries(MicronsIndexPages[k]) ]
AcquireIndexEntries == [ k \in 1..Len(AcquireIndexViews) |-> AcquireEntries(AcquireIndexViews[k]) ]

\* the entries of the pages served so far, in the order served
RECURSIVE EntriesOf(_, _)
EntriesOf(entries, ks) ==
  IF Len(ks) = 0 THEN <<>> ELSE entries[Head(ks)] \o EntriesOf(entries, Tail(ks))

ServedEntries ==
  IF source = "flippa" THEN EntriesOf(FlippaIndexEntries, served)
  ELSE IF source = "microns" THEN EntriesOf(MicronsIndexEntries, served)
  ELSE IF source = "acquire"
  THEN LET all == EntriesOf(AcquireIndexEntries, served)
       IN  [ i \in 1..Len(all) |->
               [ id |-> all[i].id,
                 ok |-> ~all[i].raises
                        /\ ~(idx_args.skip_known /\ all[i].id \in idx_args.known_ids) ] ]
  ELSE <<>>

\* the ids of the cards collected so far, in list order
CollectedIds ==
  IF source = "flippa" THEN [ i \in 1..Len(loc.all_cards) |-> loc.all_cards[i].external_id ]
  ELSE IF source = "microns" THEN [ i \in 1..Len(loc.all_cards) |-> loc.all_cards[i].slug ]
  ELSE IF source = "acquire" THEN [ i \in 1..Len(loc.cards) |-> loc.cards[i].listing_id ]
  ELSE <<>>

\* the ids in the order of their first occurrence, those kept whose first
\* occurrence is a block the source turns into a card
FirstSeenIds(entries) ==
  LET firsts == { i \in 1..Len(entries) :
                    /\ entries[i].ok
                    /\ \A j \in 1..(i - 1) : entries[j].id # entries[i].id }
  IN  [ n \in 1..Cardinality(firsts) |-> entries[NthSmallest(firsts, n)].id ]

CallerMax == IF source = "acquire" THEN idx_args.max_scrolls ELSE idx_args.max_pages

\* the last n fetched pages all yielded no new unique id
LastYieldedNothing(n) ==
  /\ Len(news) >= n
  /\ \A i \in (Len(news) - n + 1)..Len(news) : news[i] = 0

\* C10 as stated: in every source an index page or scroll view is fetched
\* only if the last one fetched yielded a new unique id and the caller's
\* maximum count is not reached.
C10_StopsOnZeroNewOrMax ==
  [][ Len(served') > Len(served) =>
        /\ ~LastYieldedNothing(1)
        /\ Truthy(CallerMax) => Len(served) < Val(CallerMax) ]_vars

\* C10 (amended): an index page or scroll view is fetched only if the
\* caller's maximum count is not reached and, on Flippa, the last page
\* yielded a new unique id and, on Acquire, the last
\* MAX_CONSECUTIVE_EMPTY_SCROLLS views did not all yield none; Microns
\* goes on after a page without a new id.
C10_IndexLoopStops ==
  [][ Len(served') > Len(served) =>
        /\ source = "flippa" => ~LastYieldedNothing(1)
        /\ source = "acquire" => ~LastYieldedNothing(MAX_CONSECUTIVE_EMPTY_SCROLLS)
        /\ Truthy(CallerMax) => Len(served) < Val(CallerMax) ]_vars

\* Flippa has stopped after a second or later page that yielded no new id,
\* before the caller's maximum
C10_Witness ==
  /\ source = "flippa"
  /\ idx_pc = "returned"
  /\ Len(news) >= 2
  /\ LastYieldedNothing(1)
  /\ news[1] > 0
  /\ Truthy(CallerMax) => Len(served) < Val(CallerMax)

\* the Flippa loop has just loaded a search page on which the rate limit
\* detection is positive
RateLimitDetected ==
  /\ source = "flippa"
  /\ loc' # loc
  /\ loc'.page_text.loaded
  /\ detect_rate_limit_or_captcha(loc'.page_text.body)

\* C11: when the rate limit or CAPTCHA detection is positive on a loaded
\* Flippa search page, get_listing_cards returns in that step: the page is
\* not tried again and no later page is fetched, the cards collected from
\* the earlier pages are unchanged, and the note 'Rate limit detected on
\* page N' with the page's number is appended to the errors; once it has
\* returned, nothing of the loop changes any more.
C11_RateLimitStopsPagination ==
  /\ [][ RateLimitDetected =>
           /\ idx_pc = "loop"
           /\ idx_pc' = "returned"
           /\ served' = served
           /\ loc'.all_cards = loc.all_cards
           /\ loc'.page_num = loc.page_num
           /\ loc'.all_errors =
                Append(loc.all_errors, <<"Rate limit detected on page ", loc.page_num>>) ]_vars
  /\ [][ (source = "flippa" /\ idx_pc = "returned") =>
           (loc' = loc /\ served' = served /\ idx_pc' = idx_pc) ]_vars

\* Flippa has returned two or more cards after a second or later page
\* showed a rate limit text
C11_Witness ==
  /\ source = "flippa"
  /\ idx_pc = "returned"
  /\ loc.page_text.loaded
  /\ detect_rate_limit_or_captcha(loc.page_text.body)
  /\ loc.page_num >= 2
  /\ Len(loc.all_cards) >= 2
  /\ Len(loc.all_errors) >= 1
  /\ loc.all_errors[Len(loc.all_errors)] = <<"Rate limit detected on page ", loc.page_num>>

-----------------------------------------------------------------------------
(* The filtered pipelines: properties *)

\* the id of a card of the running source
CardId(c) ==
  IF source = "flippa" THEN c.external_id
  ELSE IF source = "microns" THEN c.slug
  ELSE c.listing_id

\* the verdict of the running source's filter on a card
CardVerdict(c) ==
  IF source = "flippa" THEN FlippaVerdict(c, pipe)
  ELSE IF source = "microns" THEN MicronsVerdict(c, pipe)
  ELSE AcquireVerdict(c, pipe)

\* the run skips known listings
SkipsKnown == source \in {"flippa", "acquire"} /\ pipe.args.skip_known

\* the external ids stored for the running source
StoredIds == get_known_external_ids(listings, source)

\* the detail page of listing id is requested in a state where the index
\* is read and the cards are sorted, for a card that was sorted as pass or
\* check_detail, and not for a stored listing when known ones are skipped
DetailFetchAllowed(id) ==
  /\ idx_pc = "returned"
  /\ pipe_pc \in {"scrape", "check"}
  /\ \E i \in 1..Len(pipe.to_scrape \o pipe.to_check) :
       LET c == (pipe.to_scrape \o pipe.to_check)[i]
       IN  CardId(c) = id /\ CardVerdict(c) \in {"pass", "check_detail"}
  /\ \A i \in 1..Len(pipe.skipped_filter \o pipe.skipped_known) :
       CardId((pipe.skipped_filter \o pipe.skipped_known)[i]) # id
  /\ SkipsKnown => id \notin StoredIds

\* the scenario: Microns serves one page with the Newsletter card and the
\* Micro-SaaS card, the blacklist is the default one, the floor is $10,000
\* and the run is not a dry run
Scenario ==
  /\ source = "microns"
  /\ pipe_pc # "idle"
  /\ pipe.args.mode = "filter"
  /\ pipe.args.filters = FloorFilters
  /\ ~pipe.args.dry_run
  /\ idx_pc = "returned"
  /\ served = <<1>>

ScenarioOutcome ==
  /\ [ i \in 1..Len(loc.all_cards) |-> loc.all_cards[i].category ]
       = << Some(Chars("Newsletter")), Some(Chars("Micro-SaaS")) >>
  /\ loc.all_cards[2].annual_revenue = Some(5000000)
  /\ \A i \in 1..Len(fetched) : fetched[i] = Chars("invoice-tool")
  /\ StoredIds \subseteq { Chars("invoice-tool") }
  /\ pipe_pc = "done" =>
       /\ Len(fetched) = 1
       /\ [ i \in 1..Len(pipe.skipped_filter) |-> pipe.skipped_filter[i].slug ]
            = << Chars("daily-brief") >>
       /\ (pipe.errors = <<>> /\ pipe.saved = Len(pipe.listings)) =>
            StoredIds = { Chars("invoice-tool") }

\* C3: in the three filtered pipelines a detail page is requested only
\* after the cards were filtered, only for a card whose verdict is pass or
\* check_detail, never for a rejected card and, when known listings are
\* skipped, never for a listing that is already stored; and in the scenario
\* of a Newsletter card and a Micro-SaaS card with $50,000 revenue under a
\* $10,000 floor only the Micro-SaaS listing is detail-scraped and, its
\* detail page once scraped and saved, it is the one listing stored.
C3_DetailOnlyForPassingCards ==
  /\ [](Scenario => ScenarioOutcome)
  /\ [][ (fetched' # fetched /\ pipe.args.mode = "filter") =>
           DetailFetchAllowed(fetched'[Len(fetched')]) ]_vars

\* the scenario run is over: one detail page was requested and the
\* Micro-SaaS listing is the one stored
C3_Witness ==
  /\ Scenario
  /\ pipe_pc = "done"
  /\ fetched = << Chars("invoice-tool") >>
  /\ pipe.saved = 1
  /\ StoredIds = { Chars("invoice-tool") }
  /\ Len(pipe.skipped_filter) = 1

\* the cards whose detail page the run is to scrape, in the order of the
\* detail loops
DetailCards == pipe.to_scrape \o pipe.to_check

\* the card the detail loop is at
CurrentCard == IF pipe_pc = "scrape" THEN pipe.to_scrape[pipe.pos] ELSE pipe.to_check[pipe.pos]

\* scrape_listing has just raised an exception to the detail loop
DetailRaised ==
  /\ pipe_pc \in {"scrape", "check"}
  /\ Len(pipe'.raised) > Len(pipe.raised)

\* C12: in every pipeline, when the detail scrape of a listing raises an
\* exception the run does not fail: exactly one error with the listing's
\* url and the exception's type and message is appended to result.errors,
\* no listing is added, and the loop goes on with the next card; a run that
\* is done has requested the detail page of every card it was to scrape and
\* holds one error per exception raised.
C12_DetailErrorsAreCollected ==
  /\ [][ DetailRaised =>
           \E r \in { pipe'.raised[Len(pipe'.raised)] } :
             /\ pipe'.raised = Append(pipe.raised, r)
             /\ r[1] = CurrentCard.url
             /\ pipe'.errors = Append(pipe.errors, [ url |-> r[1], error_type |-> r[2].type,
                                                    error_message |-> r[2].message ])
             /\ pipe'.listings = pipe.listings
             /\ pipe_pc' # "failed"
             /\ <<pipe_pc', pipe'.pos>>
                  = AfterDetail(pipe_pc, pipe.pos, pipe.to_scrape, pipe.to_check) ]_vars
  /\ [](pipe_pc = "done" =>
          /\ \A i \in 1..Len(DetailCards) :
               \E j \in 1..Len(fetched) : fetched[j] = CardId(DetailCards[i])
          /\ Len(pipe.errors) = Len(pipe.raised))

\* a run is done in which the detail scrape of the first card raised and
\* that of a later card returned a listing
C12_Witness ==
  /\ pipe_pc = "done"
  /\ Len(DetailCards) >= 2
  /\ Len(pipe.errors) >= 1
  /\ Len(pipe.listings) >= 1
  /\ pipe.errors[1].url = DetailCards[1].url
  /\ pipe.errors[1].error_type = "TimeoutError"

\* the Acquire login of this run has failed
AuthFailed == source = "acquire" /\ loc.auth \in AuthFailures

\* C13: on Acquire login() is called at most once in a run; when it fails
\* for missing credentials or for want of a redirect, run_with_filter and
\* refresh_listings raise: the next step of the run is its failure, the
\* all-listing page and every detail page stay unrequested, no listing, error
\* or row to refresh is held as a result, the run never completes, and the
\* browser is closed when the exception leaves the run.
C13_AuthFailureIsFatal ==
  /\ [](source = "acquire" => loc.logins <= 1)
  /\ [](AuthFailed =>
          /\ pipe_pc \in {"index", "failed"}
          /\ idx_pc \in {"raised", "waiting"}
          /\ ~loc.listings_requested
          /\ served = <<>>
          /\ fetched = <<>>
          /\ pipe.listings = <<>> /\ pipe.errors = <<>> /\ pipe.to_refresh = <<>>
          /\ pipe_pc = "failed" => pipe.browser = "closed")
  /\ [][ (AuthFailed /\ pipe_pc # "failed") => pipe_pc' = "failed" ]_vars

\* run_with_filter has raised after a login without redirect, the browser
\* closed
C13_Witness ==
  /\ AuthFailed
  /\ loc.auth = "no_redirect"
  /\ loc.logins = 1
  /\ pipe.args.mode = "filter"
  /\ pipe_pc = "failed"
  /\ pipe.browser = "closed"

\* the run script has gone through all the listings of a run that saves
SavingOver ==
  /\ pipe_pc = "done"
  /\ pipe.args.mode = "filter"
  /\ ~pipe.args.dry_run
  /\ pipe.saved = Len(pipe.listings)

\* C14 as stated: in every source's run script a save that raises is
\* counted in save_errors and the script goes on with the next listing, and
\* when all the listings of a run that saves are gone through, new + updated
\* + save_errors is their number.
C14_SaveFailuresAreCounted ==
  /\ [][ pipe'.save_failures > pipe.save_failures =>
           /\ pipe_pc' = "done"
           /\ pipe'.saved = pipe.saved + 1
           /\ pipe'.stats.save_errors = pipe.stats.save_errors + 1 ]_vars
  /\ [](SavingOver =>
          pipe.stats.new + pipe.stats.updated + pipe.stats.save_errors = Len(pipe.listings))

\* the run has returned to its caller or raised
RunOver == pipe_pc \in {"done", "failed", "crashed"}

\* C15 as stated: once a run has started browser setup and has returned or
\* raised, whether it completed, was interrupted, failed in a phase or
\* failed in setup after the launch, no browser is left open.
C15_BrowserTornDown == RunOver => pipe.browser # "open"

\* for a returned listing: what the detail page yielded for a field, what
\* the card holds for it, and what the listing carries
DetailFirst(found_value, card_value, listing_value) ==
  IF found_value # None THEN listing_value = found_value
  ELSE card_value # None => listing_value = card_value

\* C16 as stated: in every ListingCreate that scrape_listing returned, a
\* field for which the detail page yielded a value carries that value, and
\* the card's value is carried only when the page yielded none: on Flippa
\* the country, on Acquire the title, the category, the asking price and
\* the TTM revenue.
C16_CardDataIsFallbackOnly ==
  source \in {"flippa", "acquire"} /\ pipe_pc # "idle" =>
    \A i \in 1..Len(pipe.scraped) :
      \E s \in { pipe.scraped[i] } :
        IF source = "flippa"
        THEN DetailFirst(s.found.country, s.card.country, s.listing.country)
        ELSE /\ DetailFirst(s.found.title, s.card.title, s.listing.title)
             /\ DetailFirst(s.found.category, s.card.category, s.listing.category)
             /\ DetailFirst(s.found.asking_price_cents, s.card.asking_price_cents,
                            s.listing.asking_price)
             /\ DetailFirst(s.found.ttm_revenue_cents, s.card.ttm_revenue_cents,
                            s.listing.annual_revenue)

\* the blacklist terms configured for the running source's card filter
ConfiguredTerms ==
  IF source = "flippa"
  THEN build_blacklist_pattern({ pipe.args.filters.category_blacklist[i] :
                                   i \in 1..Len(pipe.args.filters.category_blacklist) })
  ELSE IF source = "microns"
  THEN { pipe.args.filters.category_blacklist[i] :
           i \in 1..Len(pipe.args.filters.category_blacklist) }
  ELSE { pipe.args.filter_config.category_blacklist[i] :
           i \in 1..Len(pipe.args.filter_config.category_blacklist) }

\* the category, industry and title of a card of the running source
TextsOfCard(c) ==
  IF source = "flippa" THEN { c.category, c.industry, c.title } ELSE { c.category, c.title }

\* a configured term occurs, whatever the case, in one of the card's texts
HasBlacklistHit(c) ==
  \E term \in ConfiguredTerms, text \in TextsOfCard(c) :
    text # None /\ ContainsIgnoringCase(Val(text), term)

\* C17 as stated: in every source's filtered run no card in whose category,
\* industry or title a configured blacklist term occurs, whatever the case,
\* is among the cards kept for the detail scrape.
C17_BlacklistHitsAreRejected ==
  (pipe_pc \in {"scrape", "check", "done"} /\ pipe.args.mode = "filter") =>
    \A i \in 1..Len(DetailCards) : ~HasBlacklistHit(DetailCards[i])

\* "blacklisted" when the card filter of the run's source rejects card c
\* because of the category blacklist
BlacklistRejected(c) ==
  IF source = "flippa"
  THEN LET r == passes_filter(c, pipe.args.filters.min_annual_revenue,
                              Some(build_blacklist_pattern(
                                     { pipe.args.filters.category_blacklist[i] :
                                         i \in 1..Len(pipe.args.filters.category_blacklist) })),
                              pipe.args.us_only, pipe.args.verified_only)
       IN  r[1] = "fail" /\ r[2][1] = "blacklisted"
  ELSE IF source = "microns"
  THEN /\ ~microns_passes_filter(c, pipe.args.filters.min_annual_revenue,
                                 pipe.args.filters.max_asking_price,
                                 Some(pipe.args.filters.category_blacklist))
       /\ microns_passes_filter(c, pipe.args.filters.min_annual_revenue,
                                pipe.args.filters.max_asking_price, None)
  ELSE ~acquire_passes_filter(c, pipe.args.filter_config.category_blacklist)[1]

\* the run was started with an empty category blacklist
BlacklistOff ==
  /\ pipe # None
  /\ pipe.args.mode = "filter"
  /\ source \in {"flippa", "microns"}
  /\ pipe.args.filters.category_blacklist = <<>>

\* C18: in a run whose FilterConfig has an empty category_blacklist, no
\* card is rejected for a blacklist reason
C18_EmptyBlacklistRejectsNothing ==
  BlacklistOff =>
    \A i \in 1..Len(pipe.skipped_filter) : ~BlacklistRejected(pipe.skipped_filter[i])

\* the refresh pass of refresh_listings, once the rate limiter is made
Refreshing == pipe # None /\ pipe.args.mode = "refresh" /\ pipe.rate_limiter # None

\* the ids of the listings whose refresh raised
FailedRefreshes ==
  { Val(extract_listing_id_from_url(pipe.raised[i][1])) : i \in 1..Len(pipe.raised) }

\* the number of refreshes that failed since the last one that succeeded
TrailingFailures ==
  LET good == { j \in 1..Len(fetched) : fetched[j] \notin FailedRefreshes }
  IN  IF good = {} THEN Len(fetched)
      ELSE Len(fetched) - (CHOOSE j \in good : \A k \in good : k <= j)

\* base_delay * backoff_factor ^ failures
BackoffDelay(failures) ==
  LET RECURSIVE Times(_)
      Times(n) == IF n = 0 THEN BETWEEN_LISTINGS_MIN ELSE REFRESH_BACKOFF_FACTOR * Times(n - 1)
  IN  Times(failures)

\* C19: refresh_listings stops exactly when 5 refreshes in a row have
\* failed, a success setting the count back to zero; no listing is visited
\* after that; the wait after a refresh is the base delay doubled once per
\* failure in a row and never above 60 s; the listings and errors collected
\* before the stop are in the result
C19_RefreshAbortsAfterFiveFailures ==
  Refreshing =>
    /\ TrailingFailures <= REFRESH_MAX_CONSECUTIVE_FAILURES
    /\ Val(pipe.rate_limiter).consecutive_failures = TrailingFailures
    /\ pipe_pc = "refresh" => TrailingFailures < REFRESH_MAX_CONSECUTIVE_FAILURES
    /\ (pipe_pc = "done" /\ pipe.pos < Len(pipe.to_refresh))
          <=> TrailingFailures = REFRESH_MAX_CONSECUTIVE_FAILURES /\ pipe.pos < Len(pipe.to_refresh)
    /\ \A i \in 1..Len(pipe.waits) : pipe.waits[i] <= REFRESH_MAX_DELAY
    /\ (Len(pipe.waits) > 0 /\ TrailingFailures < REFRESH_MAX_CONSECUTIVE_FAILURES)
          => pipe.waits[Len(pipe.waits)] = BackoffDelay(TrailingFailures)
    /\ Len(pipe.listings) + Len(pipe.errors) = Len(fetched)
    /\ Len(pipe.errors) = Len(pipe.raised)

\* a refresh pass stopped by five failures after one success, with rows
\* left unvisited
C19_Witness ==
  /\ Refreshing
  /\ pipe_pc = "done"
  /\ TrailingFailures = REFRESH_MAX_CONSECUTIVE_FAILURES
  /\ Len(pipe.listings) = 1
  /\ Len(pipe.errors) = REFRESH_MAX_CONSECUTIVE_FAILURES
  /\ pipe.pos < Len(pipe.to_refresh)

\* the letter after the last digit or "." of the text, as a power of ten
MultiplierPlaces(text) ==
  LET at == { i \in 1..Len(text) : IsNumberChar(text[i]) }
      last == CHOOSE i \in at : \A j \in at : j <= i
  IN  IF at = {} \/ last = Len(text) THEN 0
      ELSE IF text[last + 1] \in {"k", "K"} THEN 3
      ELSE IF text[last + 1] \in {"m", "M"} THEN 6
      ELSE IF text[last + 1] \in {"b", "B"} THEN 9
      ELSE 0

\* round(value * multiplier * 100) for the decimal number in the text, in
\* exact arithmetic, ties to even
RoundedCents(text) ==
  LET number == Cleaned(text)
      dots == { i \in 1..Len(number) : number[i] = "." }
      d == IF dots = {} THEN Len(number) + 1 ELSE CHOOSE i \in dots : TRUE
      digits == SubSeq(number, 1, d - 1) \o SubSeq(number, d + 1, Len(number))
      decimals == Len(number) - d
      shift == MultiplierPlaces(text) + 2 - (IF decimals < 0 THEN 0 ELSE decimals)
      amount == DecimalValue(digits)
  IN  IF amount = 0 THEN 0
      ELSE IF shift >= 0 THEN amount * Pow10(shift)
      ELSE LET q == amount \div Pow10(-shift)
               twice == 2 * (amount % Pow10(-shift))
           IN  IF twice > Pow10(-shift) \/ (twice = Pow10(-shift) /\ q % 2 = 1)
               THEN q + 1 ELSE q

Str_910k == Chars("$910k")

\* C20: every money parser returns None or the integer cents
\* round(value x multiplier x 100), k, m and b standing for 10^3, 10^6 and
\* 10^9, and never raises; "$910k" gives 9,100,000 cents, "" and None give
\* None
C20_MoneyParsersAreTotal ==
  parse_result # None =>
    /\ Val(parse_result).raised = None
    /\ \/ Val(parse_result).value = None
       \/ Val(parse_result).value = Some(RoundedCents(Val(token)))
    /\ token = Some(Str_910k) => Val(parse_result).value = Some(9100000)
    /\ token \in { None, Some(<<>>) } => Val(parse_result).value = None

\* the numbers the "<N> year" and "<N> month" patterns find in the token
YearsFound == IF token = None THEN None ELSE SearchCount(Lower(Val(token)), Str_year)
MonthsFound == IF token = None THEN None ELSE SearchCount(Lower(Val(token)), Str_month)
MonthsTotal ==
  (IF YearsFound # None THEN Val(YearsFound) * 12 ELSE 0)
    + (IF MonthsFound # None THEN Val(MonthsFound) ELSE 0)

\* the launch year is the current year less months integer-divided by 12
LaunchYearDerived ==
  Val(parse_result).value # None =>
    Val(parse_result).launched_year
      = Some(Val(parse_result).now_year - (Val(Val(parse_result).value) \div 12))

\* C21 as stated: the duration parser returns years x 12 + months for every
\* token with an "<N> year" or "<N> month" pattern, and None exactly when
\* neither pattern is present
C21_DurationAsStated ==
  parse_result # None =>
    /\ (YearsFound # None \/ MonthsFound # None)
          => Val(parse_result).value = Some(MonthsTotal)
    /\ Val(parse_result).value = None <=> (YearsFound = None /\ MonthsFound = None)
    /\ LaunchYearDerived

\* C21: the duration parser returns years x 12 + months for every token
\* whose "<N> year" and "<N> month" patterns sum to more than zero, and None
\* exactly when neither pattern is present or the sum is zero; the launch
\* year derived from a duration is the current year less months
\* integer-divided by 12
C21_DurationParser ==
  parse_result # None =>
    /\ MonthsTotal > 0 => Val(parse_result).value = Some(MonthsTotal)
    /\ Val(parse_result).value = None <=> MonthsTotal = 0
    /\ LaunchYearDerived

\* "1 year 3 months" parsed to 15 months
C21_Witness ==
  /\ parse_result # None
  /\ YearsFound = Some(1)
  /\ MonthsFound = Some(3)
  /\ Val(parse_result).value = Some(15)
  /\ Val(parse_result).launched_year = Some(Val(parse_result).now_year - 1)

-----------------------------------------------------------------------------
(* Flippa pagination: the consecutive-failure counter *)

\* a step of the Flippa loop in which the page load failed, and one in
\* which it succeeded
FlippaLoadFailed ==
  /\ source = "flippa"
  /\ loc' # loc
  /\ ~loc'.page_text.loaded
FlippaLoadSucceeded ==
  /\ source = "flippa"
  /\ loc' # loc
  /\ loc'.page_text.loaded

\* C22: in the Flippa loop every successful page load sets
\* consecutive_failures to 0; a failed load adds 1 to it and either sleeps
\* BASE_RETRY * 2^(failures - 1) and tries the same page number again, or,
\* exactly when the counter has reached MAX_CONSECUTIVE_FAILURES, returns;
\* a failed load leaves all_cards as it was, get_listing_cards returns
\* them, and the counter never exceeds MAX_CONSECUTIVE_FAILURES.
C22_ConsecutiveFailures ==
  [][ /\ FlippaLoadSucceeded => loc'.consecutive_failures = 0
      /\ FlippaLoadFailed =>
           /\ loc'.consecutive_failures = loc.consecutive_failures + 1
           /\ loc'.consecutive_failures <= MAX_CONSECUTIVE_FAILURES
           /\ loc'.all_cards = loc.all_cards
           /\ loc'.page_num = loc.page_num
           /\ idx_pc' \in {"loop", "returned"}
           /\ idx_pc' = "returned" <=> loc'.consecutive_failures = MAX_CONSECUTIVE_FAILURES
           /\ idx_pc' = "loop" =>
                loc'.slept = Some(<< BASE_RETRY * (2 ^ (loc'.consecutive_failures - 1)) >>) ]_vars

\* pagination was aborted by the fifth failure in a row after a page had
\* yielded cards, which are returned
C22_Witness ==
  /\ source = "flippa"
  /\ idx_pc = "returned"
  /\ loc.consecutive_failures = MAX_CONSECUTIVE_FAILURES
  /\ Len(loc.all_cards) > 0
  /\ Len(served) > 0

-----------------------------------------------------------------------------
(* Flippa detail pages: retries and parse failures *)

\* the number of requests of the detail page of listing id in a history
Requests(history, id) == Cardinality({ i \in 1..Len(history) : history[i] = id })

\* a step of the Flippa detail loops that requests a detail page
FlippaDetailRequested ==
  /\ source = "flippa"
  /\ pipe_pc \in {"scrape", "check"}
  /\ Len(fetched') > Len(fetched)

\* the retries of a detail page that keeps failing, in a step that
\* requests the page: it is not requested more than MAX_DETAIL_RETRIES + 1
\* times, the request after which retry_count becomes k + 1 is followed by
\* a sleep of BASE_RETRY * 2^k, and an exception that reaches the detail
\* loop is recorded as one ScrapeError with the card's url
DetailRetried ==
  /\ Requests(fetched', CurrentCard.external_id) <= MAX_DETAIL_RETRIES + 1
  /\ pipe'.retry_count = pipe.retry_count + 1 =>
       /\ pipe.retry_count < MAX_DETAIL_RETRIES
       /\ pipe'.slept = Some(<< BASE_RETRY * (2 ^ pipe.retry_count) >>)
       /\ pipe_pc' = pipe_pc /\ pipe'.pos = pipe.pos
  /\ DetailRaised =>
       /\ Len(pipe'.errors) = Len(pipe.errors) + 1
       /\ pipe'.errors[Len(pipe'.errors)].url = CurrentCard.url
       /\ pipe'.listings = pipe.listings

\* a loaded detail page yields its record: an exception that reaches the
\* detail loop is a failure to load or render the page
NoParseErrorAborts ==
  DetailRaised => pipe'.raised[Len(pipe'.raised)][2] \in SampleExceptions

\* the retries alone
DetailRetriesBounded == [][ FlippaDetailRequested => DetailRetried ]_vars

\* C23: a Flippa detail page whose load keeps failing is requested at most
\* MAX_DETAIL_RETRIES + 1 times, with a sleep of BASE_RETRY * 2^k before
\* retry k + 1, and the error is then recorded as one ScrapeError with the
\* listing's url; a page that loads yields its record, a field that fails
\* to parse being left null: no parse failure reaches the detail loop as an
\* exception.
C23_DetailRetriesThenRecord ==
  [][ FlippaDetailRequested => (DetailRetried /\ NoParseErrorAborts) ]_vars

-----------------------------------------------------------------------------
(* Flippa pagination: the page limit *)

\* a step of the Flippa loop that requests search page loc.page_num
FlippaPageRequested ==
  /\ source = "flippa"
  /\ idx_pc = "loop"
  /\ loc' # loc

\* C24: whatever max_pages the caller gives (None, 0, or a number up to or
\* above MAX_PAGES), get_listing_cards requests no search page numbered
\* above MAX_PAGES.
C24_NoPageAboveMaxPages ==
  [][ FlippaPageRequested => loc.page_num <= MAX_PAGES ]_vars

-----------------------------------------------------------------------------
(* The Flippa card extractor: first match wins *)

\* the page as the extractor has read it when it is at line m of block n
ReadSoFar(n, m) ==
  SubSeq(page, 1, n - 1) \o << [page[n] EXCEPT !.text = SubSeq(@, 1, m)] >>

\* the fields an entry of card_data fills at most once
FirstMatchFields ==
  { "category", "industry", "title", "profit_monthly_cents", "original_currency",
    "country", "site_age_months" }

\* C25: within one page, once category, industry, title, monthly profit,
\* original currency, country or site age of a listing id is not None, no
\* later line and no later block of that id changes it, and has_verified,
\* once True, stays True: the card the extractor returns agrees with what
\* it held after every earlier part of the page.
C25_FirstMatchWins ==
  extracted # None =>
    \A n \in 1..Len(page) : \A m \in 0..Len(page[n].text) :
      \A early \in { flippa_extract_cards_from_page(ReadSoFar(n, m))[1] } :
      \A final \in { Val(extracted)[1] } :
        \A i \in 1..Len(early), j \in 1..Len(final) :
          early[i].external_id = final[j].external_id =>
            /\ \A f \in FirstMatchFields : early[i][f] # None => final[j][f] = early[i][f]
            /\ early[i].has_verified => final[j].has_verified

-----------------------------------------------------------------------------
(* Politeness delays *)

\* a step of an index loop that issues a request: a page load of the
\* Flippa or Microns loop, or a scroll of the Acquire loop
IndexRequested ==
  /\ idx_pc = "loop"
  /\ loc' # loc
  /\ source = "acquire" => loc'.scroll_count > loc.scroll_count

\* a step of a detail loop that requests a detail page
DetailRequested ==
  /\ pipe_pc = "scrape" \/ pipe_pc = "check"
  /\ Len(fetched') > Len(fetched)

\* C26: in the filtered runs of the three scrapers and in BaseScraper.run,
\* between any two successive requests (index page to index page, index
\* page to detail page, detail page to detail page, also when the earlier
\* one failed) at least one sleep occurs.
C26_SleepBetweenRequests ==
  [][ /\ IndexRequested => loc.slept # Some(<<>>)
      /\ DetailRequested => pipe'.gap # Some(<<>>) ]_vars

-----------------------------------------------------------------------------
(* Termination of the index loops *)

\* get_listing_cards has returned or raised
IndexLoopLeft == idx_pc \in {"returned", "raised"}

\* C27: whatever the site does (loads that succeed or fail, page contents,
\* next-page links) and whatever max_pages or max_scrolls is given, None
\* included, get_listing_cards of each scraper eventually returns or
\* raises.
C27_IndexLoopsTerminate == <>IndexLoopLeft

-----------------------------------------------------------------------------
(* Accounting of the cards of a Flippa run *)

\* how many entries of the sequence satisfy the test
HowMany(seq, Test(_)) == Cardinality({ i \in 1..Len(seq) : Test(seq[i]) })

\* the places that hold card c when scrape_with_filter returns: entries of
\* skipped_known and skipped_filter that are c, listings scraped from its
\* url, errors recorded for its url
PlacesOf(c) ==
  LET IsCard(x) == x = c
      IsOfCard(x) == x.url = c.url
  IN  HowMany(pipe.skipped_known, IsCard) + HowMany(pipe.skipped_filter, IsCard)
        + HowMany(pipe.listings, IsOfCard) + HowMany(pipe.errors, IsOfCard)

\* Flippa's scrape_with_filter has returned
FlippaFilterReturned == source = "flippa" /\ pipe_pc = "done"

\* C28: when Flippa's scrape_with_filter returns, every card that
\* get_listing_cards produced is in exactly one of skipped_known,
\* skipped_filter, result.listings and result.errors, the four lengths add
\* up to the number of cards, and the detail page of every check_detail
\* card was requested.
C28_EveryCardAccountedOnce ==
  FlippaFilterReturned =>
    /\ \A i \in 1..Len(loc.all_cards) : PlacesOf(loc.all_cards[i]) = 1
    /\ Len(loc.all_cards) = Len(pipe.skipped_known) + Len(pipe.skipped_filter)
                               + Len(pipe.listings) + Len(pipe.errors)
    /\ \A i \in 1..Len(pipe.to_check) :
         \E j \in 1..Len(fetched) : fetched[j] = pipe.to_check[i].external_id

\* a run that returned with a filtered card, a listing and an error, one
\* of them from a card whose country was checked on its detail page
C28_Witness ==
  /\ FlippaFilterReturned
  /\ Len(pipe.skipped_filter) > 0
  /\ Len(pipe.listings) > 0
  /\ Len(pipe.errors) > 0
  /\ Len(pipe.to_check) > 0

-----------------------------------------------------------------------------
(* The us_only filter of a Flippa run *)

\* a Flippa run of scrape_with_filter with us_only enabled
FlippaUsOnly == source = "flippa" /\ pipe # None /\ pipe.args.us_only

\* the card the index produced under this id
CardsWithId(id) ==
  { loc.all_cards[i] : i \in { j \in 1..Len(loc.all_cards) : loc.all_cards[j].external_id = id } }

\* the detail pages read for check_detail cards that showed no US country
NonUsChecks ==
  { i \in 1..Len(pipe.scraped) :
      /\ \E j \in 1..Len(pipe.to_check) : pipe.to_check[j] = pipe.scraped[i].card
      /\ ~is_us_country(pipe.scraped[i].found.country) }

\* C29: in a Flippa run with us_only every listing of the result has a
\* country that is_us_country accepts; no detail page is requested for a
\* card whose country is known and not US; and a check_detail card whose
\* detail page shows a non-US country or none is in skipped_filter and not
\* in result.listings.
C29_UsOnlyListings ==
  FlippaUsOnly =>
    /\ \A i \in 1..Len(pipe.listings) : is_us_country(pipe.listings[i].country)
    /\ \A i \in 1..Len(fetched) : \A c \in CardsWithId(fetched[i]) :
         c.country = None \/ is_us_country(c.country)
    /\ \A i \in NonUsChecks :
         /\ \E j \in 1..Len(pipe.skipped_filter) : pipe.skipped_filter[j] = pipe.scraped[i].card
         /\ \A j \in 1..Len(pipe.listings) : pipe.listings[j].url # pipe.scraped[i].card.url

\* a returned us_only run with a listing in its result, a listing scraped
\* from a card of known US country whose detail page showed Germany, and a
\* check_detail card whose detail page showed Germany
C29_Witness ==
  /\ FlippaUsOnly
  /\ pipe_pc = "done"
  /\ Len(pipe.listings) > 0
  /\ \E i \in 1..Len(pipe.scraped) :
       /\ pipe.scraped[i].card.country # None
       /\ pipe.scraped[i].found.country = Some(Chars("Germany"))
  /\ \E i \in NonUsChecks : pipe.scraped[i].found.country = Some(Chars("Germany"))

-----------------------------------------------------------------------------
(* The limits of an Acquire run *)

\* get_listing_cards of Acquire has returned
AcquireCardsReturned == source = "acquire" /\ idx_pc = "returned"

\* C30: get_listing_cards of Acquire never returns more than
\* MAX_LISTINGS_PER_RUN cards, whatever the number of links a single view
\* exposes.
C30_AtMostMaxListings ==
  AcquireCardsReturned => Len(loc.cards) <= MAX_LISTINGS_PER_RUN

=============================================================================
